---- MODULE Spec2Model ----
(***************************************************************************)
(* Furniture catalog (src/app.js): the session state (catalog, compare     *)
(* set, cart set, active filter), the persisted cart record and the parts  *)
(* of the document the handlers write (gallery cards, floating compare     *)
(* bar, cart badge, the two modals).  Every handler of app.js is a         *)
(* function from a state record to a state record; an action applies one   *)
(* handler to the current state.                                           *)
(*                                                                         *)
(* Texts (data-index attributes, the persisted JSON record, price texts,   *)
(* the formatted total) are sequences of characters (UTF-16 code units),   *)
(* so that formatting and parsing are computed and not assumed.            *)
(***************************************************************************)
EXTENDS Integers, Sequences, FiniteSets, TLC

\* Longest catalog (number of entries of data.yaml) the model explores.
MaxItems == 4

\* Longest catalog with an aliased entry the model explores.
MaxAliased == 3

\* Largest cart the clicks build: the cart button is clicked to add an item
\* only while the cart set holds fewer members.
MaxCart == 2

\* Number of events (loads, restarts, clicks) in a run of SpecViews, which
\* follows the contents of the two modals as well.
MaxEvents == 5

\* CONFIG.MAX_COMPARE_ITEMS
MAX_COMPARE_ITEMS == 3

(***************************************************************************)
(* Characters and numbers                                                  *)
(***************************************************************************)
Digits == <<"0", "1", "2", "3", "4", "5", "6", "7", "8", "9">>

DigitSet == {Digits[i] : i \in 1..10}

DigitVal(c) ==
  CASE c = "0" -> 0 [] c = "1" -> 1 [] c = "2" -> 2 [] c = "3" -> 3 [] c = "4" -> 4
    [] c = "5" -> 5 [] c = "6" -> 6 [] c = "7" -> 7 [] c = "8" -> 8 [] c = "9" -> 9

\* String(n) for a non-negative integer: its decimal digits.
RECURSIVE NatToChars(_)
NatToChars(n) ==
  IF n < 10 THEN <<Digits[n + 1]>>
  ELSE NatToChars(n \div 10) \o <<Digits[(n % 10) + 1]>>

\* String(n) for any integer, as a template literal or JSON.stringify writes it.
IntToChars(n) == IF n < 0 THEN <<"-">> \o NatToChars(0 - n) ELSE NatToChars(n)

\* The value of a non-empty sequence of digits.
RECURSIVE DigitsToNat(_)
DigitsToNat(cs) ==
  IF cs = <<>> THEN 0
  ELSE 10 * DigitsToNat(SubSeq(cs, 1, Len(cs) - 1)) + DigitVal(cs[Len(cs)])

\* The longest prefix of cs made of digits.
DigitPrefix(cs) ==
  LET n == CHOOSE n \in 0..Len(cs) :
             /\ \A m \in 1..n : cs[m] \in DigitSet
             /\ n = Len(cs) \/ cs[n + 1] \notin DigitSet
  IN  SubSeq(cs, 1, n)

\* parseInt(text, 10): optional sign, then the leading digits; NaN without any.
\* [nan, val]
parseInt(cs) ==
  LET neg  == cs # <<>> /\ Head(cs) = "-"
      body == IF cs # <<>> /\ Head(cs) \in {"-", "+"} THEN Tail(cs) ELSE cs
      ds   == DigitPrefix(body)
  IN  IF ds = <<>> THEN [nan |-> TRUE, val |-> 0]
      ELSE [nan |-> FALSE, val |-> IF neg THEN 0 - DigitsToNat(ds) ELSE DigitsToNat(ds)]

(***************************************************************************)
(* JavaScript values that can sit in the cart Set: what JSON.parse builds  *)
(* and what the handlers add.  One record shape for all of them, so that   *)
(* any two can be compared; two are equal exactly when a Set takes them    *)
(* for the same member.                                                    *)
(***************************************************************************)
\* key is what String(v) gives for an array or an object, [throws, text]:
\* the conversion ends in a TypeError, or gives the text.  Of a primitive the
\* text is computed from the value itself (ToPropertyKey) and key is NoKey.
NoKey == [throws |-> FALSE, text |-> <<>>]

Num(n) == [type |-> "number", num |-> n, str |-> <<>>, key |-> NoKey]

Str(cs) == [type |-> "string", num |-> 0, str |-> cs, key |-> NoKey]

Null == [type |-> "null", num |-> 0, str |-> <<>>, key |-> NoKey]

\* A JavaScript Set is insertion-ordered: a sequence without repetition.
SetHas(set, v) == \E i \in 1..Len(set) : set[i] = v

SetAdd(set, v) == IF SetHas(set, v) THEN set ELSE Append(set, v)

SetDelete(set, v) == SelectSeq(set, LAMBDA x : x # v)

\* new Set(array): the array's values in order of first occurrence.
SetFromArray(arr) ==
  LET first == SelectSeq([p \in 1..Len(arr) |-> p],
                         LAMBDA p : \A q \in 1..(p - 1) : arr[q] # arr[p])
  IN  [n \in 1..Len(first) |-> arr[first[n]]]

Members(set) == {set[i] : i \in 1..Len(set)}

(***************************************************************************)
(* The catalog.  jsyaml.load builds one object per YAML mapping; an alias  *)
(* of an anchor puts the SAME object at a second position.  An entry of the *)
(* catalog is therefore an object reference (1, 2, ...), and two entries   *)
(* are === exactly when they are the same reference.  ItemTable gives what *)
(* the handlers read of each entry: its category, its price, whether it    *)
(* has a dimensions mapping, and whether the entry is null (a bare "- " of *)
(* the YAML list) instead of an object.  Objects 1 and 3 are distinct      *)
(* objects with identical content.                                         *)
(***************************************************************************)
ItemTable ==
  << [category |-> "sofa", price |-> <<"$", "1", ",", "0", "0", "0", ".", "0", "0">>,
      hasDimensions |-> TRUE, isNull |-> FALSE],
     [category |-> "chair", price |-> <<"$", "2", ",", "2", "9", "9", " ", "-", " ", "$", "3", ",", "0", "9", "9">>,
      hasDimensions |-> TRUE, isNull |-> FALSE],
     [category |-> "sofa", price |-> <<"$", "1", ",", "0", "0", "0", ".", "0", "0">>,
      hasDimensions |-> TRUE, isNull |-> FALSE],
     [category |-> "coffee-table", price |-> <<"T", "B", "D">>,
      hasDimensions |-> TRUE, isNull |-> FALSE],
     [category |-> "chair", price |-> <<"$", "4", "9", "9", ".", "5", "0", " ", "-", " ", "$", "6", "5", "0", ".", "0", "0">>,
      hasDimensions |-> TRUE, isNull |-> FALSE],
     [category |-> "sofa", price |-> <<"$", "3", "0", "0">>,
      hasDimensions |-> TRUE, isNull |-> FALSE],
     [category |-> "chair", price |-> <<"$", "1", "2", "0", ".", "0", "0">>,
      hasDimensions |-> FALSE, isNull |-> FALSE],
     [category |-> "", price |-> <<>>,
      hasDimensions |-> FALSE, isNull |-> TRUE] >>

\* The data-filter values of the filter pills that are clicked.
FilterValues == {"all", "sofa", "chair"}

Max(a, b) == IF a >= b THEN a ELSE b

\* The catalogs of complete items explored: n different objects
\* (n <= MaxItems), and n objects (n <= MaxAliased) of which the last entry is
\* an alias of the first.
Catalogs ==
  {<<>>}
    \cup {[i \in 1..n |-> i] : n \in 1..MaxItems}
    \cup {[i \in 1..n |-> IF i = n THEN 1 ELSE i] : n \in 2..MaxAliased}

\* What jsyaml.load makes of the text of data.yaml: a list of entries, a
\* value that is no list (the mapping "title: Catalog", the scalar "hello"),
\* or undefined for a document without content.
YamlList(items) == [kind |-> "list", items |-> items]

YamlEmpty == [kind |-> "empty", items |-> <<>>]

\* The documents: the catalogs, two lists that are no catalog of complete
\* items (a sofa followed by the chair without dimensions, entry 7 of
\* ItemTable, and a sofa followed by the null entry, entry 8), the mapping,
\* the scalar and the document without content.
Documents ==
  {YamlList(items) : items \in Catalogs \cup {<<1, 7>>, <<1, 8>>}}
    \cup {[kind |-> "mapping", items |-> <<>>], [kind |-> "scalar", items |-> <<>>], YamlEmpty}

\* What the loaded value is to the handlers: "jsyaml.load(...) || []" makes
\* an array of a document without content.
CatalogKind(doc) ==
  IF doc.kind = "mapping" THEN "object"
  ELSE IF doc.kind = "scalar" THEN "string"
  ELSE "array"

\* The document is a list of complete items (or holds nothing): the catalog
\* that the program is written for.
WellFormed(doc) ==
  /\ CatalogKind(doc) = "array"
  /\ \A i \in 1..Len(doc.items) :
       ~ItemTable[doc.items[i]].isNull /\ ItemTable[doc.items[i]].hasDimensions

\* The answers to fetch("data.yaml"): the request is rejected (no server, a
\* file: page), it is answered with a status that is not ok, it is answered
\* with a text that jsyaml.load refuses, or with a text that it loads.
Answer(doc) == [status |-> "ok", parses |-> TRUE, value |-> doc]

FailedResponses ==
  { [status |-> "rejected", parses |-> FALSE, value |-> YamlEmpty],
    [status |-> "error", parses |-> FALSE, value |-> YamlEmpty],
    [status |-> "ok", parses |-> FALSE, value |-> YamlEmpty] }

(***************************************************************************)
(* Natural numbers of any size, for the arithmetic of the Number type:     *)
(* a sequence of limbs in base 2^15, least significant first, without a    *)
(* most significant zero limb (zero is the empty sequence).                *)
(***************************************************************************)
Base == 2^15

LimbBits == 15

\* a without its most significant zero limbs.
BigNorm(a) ==
  LET top == CHOOSE n \in 0..Len(a) :
               /\ n = 0 \/ a[n] # 0
               /\ \A m \in (n + 1)..Len(a) : a[m] = 0
  IN  SubSeq(a, 1, top)

BigLimb(a, i) == IF i <= Len(a) THEN a[i] ELSE 0

\* Body applied to value: value is a name for a result that Body uses more
\* than once (a local const of the code, or an intermediate result).
With(value, Body(_)) == Body(value)

\* The limbs lo..hi of a + b + carry, and the carry out of them: the lower
\* half first, its carry into the upper half.  [limbs, carry]
RECURSIVE BigAddRange(_, _, _, _, _)
BigAddRange(a, b, lo, hi, carry) ==
  IF lo = hi
  THEN LET t == BigLimb(a, lo) + BigLimb(b, lo) + carry
       IN  [limbs |-> <<t % Base>>, carry |-> t \div Base]
  ELSE LET mid   == (lo + hi) \div 2
           lower == BigAddRange(a, b, lo, mid, carry)
           upper == BigAddRange(a, b, mid + 1, hi, lower.carry)
       IN  [limbs |-> lower.limbs \o upper.limbs, carry |-> upper.carry]

BigAdd(a, b) ==
  IF a = <<>> THEN b
  ELSE IF b = <<>> THEN a
  ELSE With(BigAddRange(a, b, 1, Max(Len(a), Len(b)), 0),
            LAMBDA r : IF r.carry = 0 THEN r.limbs ELSE Append(r.limbs, r.carry))

\* The limbs lo..hi of a - b - carry, and the borrow out of them.
RECURSIVE BigSubRange(_, _, _, _, _)
BigSubRange(a, b, lo, hi, carry) ==
  IF lo = hi
  THEN LET t == a[lo] - BigLimb(b, lo) - carry
       IN  [limbs |-> <<IF t < 0 THEN t + Base ELSE t>>, carry |-> IF t < 0 THEN 1 ELSE 0]
  ELSE LET mid   == (lo + hi) \div 2
           lower == BigSubRange(a, b, lo, mid, carry)
           upper == BigSubRange(a, b, mid + 1, hi, lower.carry)
       IN  [limbs |-> lower.limbs \o upper.limbs, carry |-> upper.carry]

\* a - b for a >= b.
\* The natural number n (a length, below 2^31) as a big natural.
BigFromNat(n) == BigNorm(<<n % Base, (n \div Base) % Base, n \div (Base * Base)>>)

BigSub(a, b) == IF a = <<>> THEN <<>> ELSE BigNorm(BigSubRange(a, b, 1, Len(a), 0).limbs)

\* -1, 0 or 1 as a is less than, equal to or greater than b: the most
\* significant limb in which they differ decides.
BigCmp(a, b) ==
  LET differ == {i \in 1..Len(a) : a[i] # b[i]}
      top    == CHOOSE i \in differ : \A j \in differ : j <= i
  IN  IF Len(a) # Len(b) THEN (IF Len(a) < Len(b) THEN 0 - 1 ELSE 1)
      ELSE IF differ = {} THEN 0
      ELSE IF a[top] < b[top] THEN 0 - 1 ELSE 1

\* The limbs lo..hi of a * k + carry, and the carry out of them.
RECURSIVE BigMulRange(_, _, _, _, _)
BigMulRange(a, k, lo, hi, carry) ==
  IF lo = hi
  THEN LET t == a[lo] * k + carry
       IN  [limbs |-> <<t % Base>>, carry |-> t \div Base]
  ELSE LET mid   == (lo + hi) \div 2
           lower == BigMulRange(a, k, lo, mid, carry)
           upper == BigMulRange(a, k, mid + 1, hi, lower.carry)
       IN  [limbs |-> lower.limbs \o upper.limbs, carry |-> upper.carry]

\* a * k for 0 <= k < Base.
BigMulSmall(a, k) ==
  IF k = 0 \/ a = <<>> THEN <<>>
  ELSE With(BigMulRange(a, k, 1, Len(a), 0),
            LAMBDA r : IF r.carry = 0 THEN r.limbs ELSE Append(r.limbs, r.carry))

\* The limbs hi..lo of the quotient of a by k, most significant first, and
\* the remainder they leave, given the remainder r of the limbs above hi.
RECURSIVE BigDivRange(_, _, _, _, _)
BigDivRange(a, k, lo, hi, r) ==
  IF lo = hi
  THEN LET t == r * Base + a[lo]
       IN  [limbs |-> <<t \div k>>, carry |-> t % k]
  ELSE LET mid   == (lo + hi) \div 2
           upper == BigDivRange(a, k, mid + 1, hi, r)
           lower == BigDivRange(a, k, lo, mid, upper.carry)
       IN  [limbs |-> upper.limbs \o lower.limbs, carry |-> lower.carry]

\* Quotient and remainder of a by k, 0 < k < Base: [q, r].
BigDivSmall(a, k) ==
  IF a = <<>> THEN [q |-> <<>>, r |-> 0]
  ELSE With(BigDivRange(a, k, 1, Len(a), 0),
            LAMBDA d : [q |-> BigNorm([i \in 1..Len(a) |-> d.limbs[Len(a) + 1 - i]]),
                        r |-> d.carry])

\* 2^n
BigPow2(n) == [i \in 1..(n \div LimbBits) |-> 0] \o <<2^(n % LimbBits)>>

\* a * 2^n and floor(a / 2^n).
BigShl(a, n) ==
  IF a = <<>> THEN <<>>
  ELSE [i \in 1..(n \div LimbBits) |-> 0] \o BigMulSmall(a, 2^(n % LimbBits))

BigShr(a, n) ==
  IF n \div LimbBits >= Len(a) THEN <<>>
  ELSE BigDivSmall(SubSeq(a, (n \div LimbBits) + 1, Len(a)), 2^(n % LimbBits)).q

\* The n low bits of a are all zero.
BigLowZero(a, n) ==
  /\ \A i \in 1..(n \div LimbBits) : BigLimb(a, i) = 0
  /\ BigLimb(a, (n \div LimbBits) + 1) % 2^(n % LimbBits) = 0

\* Bit i of a (bit 0 is the least significant).
BigBit(a, i) == (BigLimb(a, (i \div LimbBits) + 1) \div 2^(i % LimbBits)) % 2

RECURSIVE BitLen(_)
BitLen(n) == IF n = 0 THEN 0 ELSE 1 + BitLen(n \div 2)

BigBitLen(a) == IF a = <<>> THEN 0 ELSE LimbBits * (Len(a) - 1) + BitLen(a[Len(a)])

\* a * 10^k: up to 10^4 in one multiplication, a larger power as the product
\* of the powers of the two halves of k.
RECURSIVE BigMulPow10(_, _)
BigMulPow10(a, k) ==
  IF k = 0 \/ a = <<>> THEN a
  ELSE IF k <= 4 THEN BigMulSmall(a, 10^k)
  ELSE BigMulPow10(BigMulPow10(a, k \div 2), k - (k \div 2))

\* The number that a sequence of decimal digit characters writes: the
\* number of its first half, times the power of ten of the second half's
\* length, plus the number of the second half.
RECURSIVE BigFromDigits(_)
BigFromDigits(cs) ==
  LET m == Len(cs) \div 2
  IN  IF Len(cs) <= 4 THEN BigNorm(<<DigitsToNat(cs)>>)
      ELSE BigAdd(BigMulPow10(BigFromDigits(SubSeq(cs, 1, Len(cs) - m)), m),
                  BigFromDigits(SubSeq(cs, Len(cs) - m + 1, Len(cs))))

\* floor(d.q / 10^k), and whether this or an earlier division (d.sticky) left
\* a remainder: [q, sticky].
RECURSIVE BigDivPow10(_, _)
BigDivPow10(d, k) ==
  IF k = 0 \/ d.q = <<>> THEN d
  ELSE IF k <= 4
  THEN With(BigDivSmall(d.q, 10^k),
            LAMBDA e : [q |-> e.q, sticky |-> d.sticky \/ e.r # 0])
  ELSE BigDivPow10(BigDivPow10(d, k \div 2), k - (k \div 2))

(***************************************************************************)
(* The Number type: IEEE 754 binary64.  The numbers of the cart total are  *)
(* never negative (the minus sign is stripped from a price), so a Number   *)
(* here is NaN, Infinity, or mant * 2^exp with mant < 2^53 and             *)
(* exp >= -1074 (mant >= 2^52 unless exp = -1074); zero has mant = 0.      *)
(***************************************************************************)
Finite(mant, exp) == [kind |-> "finite", mant |-> mant, exp |-> exp]

Infinity == [kind |-> "infinity", mant |-> <<>>, exp |-> 0]

NaN == [kind |-> "nan", mant |-> <<>>, exp |-> 0]

DoubleZero == Finite(<<>>, 0)

\* mant * 2^exp for a mantissa of at most 54 bits that rounding has produced:
\* 2^53 is written 2^52 * 2, and what exceeds the largest Number is Infinity.
Normalize(mant, exp) ==
  LET long == BigBitLen(mant) > 53
  IN  IF mant = <<>> THEN DoubleZero
      ELSE IF (IF long THEN exp + 1 ELSE exp) > 971 THEN Infinity
      ELSE IF long THEN Finite(BigShr(mant, 1), exp + 1)
      ELSE Finite(mant, exp)

\* The Number nearest to d.q * 2^e0 (to a value between d.q * 2^e0 and
\* (d.q + 1) * 2^e0 when d.sticky), ties to the even mantissa.  The drop low
\* bits of d.q do not fit the mantissa: the highest of them is the half.
RoundToDouble(d, e0) ==
  LET drop == Max(e0 + BigBitLen(d.q) - 53, 0 - 1074) - e0
      half == BigBit(d.q, drop - 1) = 1
      rest == d.sticky \/ ~BigLowZero(d.q, drop - 1)
  IN  IF d.q = <<>> THEN DoubleZero
      ELSE Normalize(IF drop <= 0 THEN BigShl(d.q, 0 - drop)
                     ELSE With(BigShr(d.q, drop),
                               LAMBDA kept : IF half /\ (rest \/ BigBit(kept, 0) = 1)
                                             THEN BigAdd(kept, <<1>>)
                                             ELSE kept),
                     e0 + drop)

\* cs without its leading zeros.
StripLeadingZeros(cs) ==
  LET zeros == CHOOSE n \in 0..Len(cs) :
                 /\ \A m \in 1..n : cs[m] = "0"
                 /\ n = Len(cs) \/ cs[n + 1] # "0"
  IN  SubSeq(cs, zeros + 1, Len(cs))

\* The Number nearest to (the integer D that digits writes) * 10^dexp.  For a
\* negative dexp, D is shifted left by s bits before the division by
\* 10^(-dexp), so that the quotient keeps more than 54 bits.
DecimalToDouble(digits, dexp) ==
  LET ds == StripLeadingZeros(digits)
  IN  IF ds = <<>> THEN DoubleZero
      ELSE IF Len(ds) + dexp > 310 THEN Infinity
      ELSE IF Len(ds) + dexp < 0 - 330 THEN DoubleZero
      ELSE With(BigFromDigits(ds),
                LAMBDA D :
                  LET s == Max(0, 56 - (4 * dexp) - BigBitLen(D))
                  IN  RoundToDouble(IF dexp >= 0
                                    THEN [q |-> BigMulPow10(D, dexp), sticky |-> FALSE]
                                    ELSE BigDivPow10([q |-> BigShl(D, s), sticky |-> FALSE],
                                                     0 - dexp),
                                    IF dexp >= 0 THEN 0 ELSE 0 - s))

\* a + b for two Numbers that are not negative.
DoubleAdd(a, b) ==
  LET e == IF a.exp < b.exp THEN a.exp ELSE b.exp
  IN  IF a.kind = "nan" \/ b.kind = "nan" THEN NaN
      ELSE IF a.kind = "infinity" \/ b.kind = "infinity" THEN Infinity
      ELSE IF a.mant = <<>> THEN b
      ELSE IF b.mant = <<>> THEN a
      ELSE IF a.exp - b.exp > 64 THEN a
      ELSE IF b.exp - a.exp > 64 THEN b
      ELSE RoundToDouble([q      |-> BigAdd(BigShl(a.mant, a.exp - e), BigShl(b.mant, b.exp - e)),
                          sticky |-> FALSE],
                         e)

(***************************************************************************)
(* The decimal digits of a Number: the shortest digit string that reads    *)
(* back as the same Number, the nearest to it among the shortest.  The     *)
(* Number is 0.d1d2...dn * 10^point.  r / s is the part of the Number not  *)
(* yet written, mp / s and mm / s the distances to the midpoints towards   *)
(* the next larger and the next smaller Number.                            *)
(***************************************************************************)
\* Quotient (a digit) and remainder of r by s: [d, r].
RECURSIVE QuotRem(_, _, _)
QuotRem(r, s, d) ==
  IF BigCmp(r, s) < 0 THEN [d |-> d, r |-> r] ELSE QuotRem(BigSub(r, s), s, d + 1)

\* The digits after those written: the next digit qr.d of r / s; it is the
\* last one when what is left (qr.r) is within the distance mm of the lower
\* midpoint (low) or within mp of the upper one; when both, the digit nearer
\* to the Number is written, and the even one of the two when the Number is
\* halfway between them.
RECURSIVE GenerateDigits(_, _, _, _, _, _)
GenerateDigits(r, s, mp, mm, even, digits) ==
  With(QuotRem(BigMulSmall(r, 10), s, 0),
       LAMBDA qr :
         With(BigMulSmall(mp, 10),
              LAMBDA mp1 :
                With(BigMulSmall(mm, 10),
                     LAMBDA mm1 :
                       LET low == BigCmp(qr.r, mm1) < (IF even THEN 1 ELSE 0)
                       IN  IF BigCmp(BigAdd(qr.r, mp1), s) >= (IF even THEN 0 ELSE 1)
                           THEN IF low /\ With(BigCmp(BigMulSmall(qr.r, 2), s),
                                               LAMBDA half :
                                                 half < 0 \/ (half = 0 /\ qr.d % 2 = 0))
                                THEN Append(digits, qr.d)
                                ELSE Append(digits, qr.d + 1)
                           ELSE IF low THEN Append(digits, qr.d)
                           ELSE GenerateDigits(qr.r, s, mp1, mm1, even,
                                               Append(digits, qr.d)))))

\* While ten times the upper end of the rounding interval stays below 1, the
\* value is scaled up by ten and the point moves left.
RECURSIVE ScaleDown(_, _, _, _, _, _)
ScaleDown(r, s, mp, mm, even, point) ==
  IF BigCmp(BigMulSmall(BigAdd(r, mp), 10), s) < (IF even THEN 0 ELSE 1)
  THEN ScaleDown(BigMulSmall(r, 10), s, BigMulSmall(mp, 10), BigMulSmall(mm, 10),
                 even, point - 1)
  ELSE [digits |-> GenerateDigits(r, s, mp, mm, even, <<>>), point |-> point]

\* While the upper end of the rounding interval reaches 1, the value is
\* scaled down by ten and the point moves right.
RECURSIVE ScaleUp(_, _, _, _, _, _)
ScaleUp(r, s, mp, mm, even, point) ==
  IF BigCmp(BigAdd(r, mp), s) >= (IF even THEN 0 ELSE 1)
  THEN ScaleUp(r, BigMulSmall(s, 10), mp, mm, even, point + 1)
  ELSE ScaleDown(r, s, mp, mm, even, point)

\* [digits, point] of a finite Number that is not zero; the digits are the
\* numbers 0..9.  x = mant * 2^e / 2^f with e or f zero; numerator and
\* denominator are doubled once (twice when the Number below x is nearer than
\* the one above, x being a power of two) so that the distances to the
\* midpoints are whole.  The scaling starts from an estimate of the point,
\* the size of x in bits times log10(2), which is at most one step off.
ShortestDigits(x) ==
  LET e     == IF x.exp > 0 THEN x.exp ELSE 0
      f     == IF x.exp < 0 THEN 0 - x.exp ELSE 0
      close == BigBitLen(x.mant) = 53 /\ BigLowZero(x.mant, 52) /\ x.exp > 0 - 1074
      up    == IF close THEN 2 ELSE 1
      est   == ((BigBitLen(x.mant) + x.exp) * 30103) \div 100000
      p     == IF est > 0 THEN est ELSE 0
      n     == IF est < 0 THEN 0 - est ELSE 0
  IN  ScaleUp(BigMulPow10(BigShl(x.mant, e + up), n), BigMulPow10(BigPow2(f + up), p),
              BigMulPow10(BigPow2(e + up - 1), n), BigMulPow10(BigPow2(e), n),
              BigBit(x.mant, 0) = 0, est)

(***************************************************************************)
(* Characters.  A text is a sequence of UTF-16 code units.  A printable    *)
(* ASCII character is written as itself, TAB, LF, FF and CR as "\t", "\n", *)
(* "\f" and "\r", and every other code unit by its name "U+XXXX" (four     *)
(* upper-case hexadecimal digits): the backtick is "U+0060", the backspace *)
(* "U+0008".                                                               *)
(***************************************************************************)
Quote == "\""

Ascii ==
  <<" ", "!", "\"", "#", "$", "%", "&", "'", "(", ")", "*", "+", ",", "-",
    ".", "/", "0", "1", "2", "3", "4", "5", "6", "7", "8", "9", ":", ";",
    "<", "=", ">", "?", "@", "A", "B", "C", "D", "E", "F", "G", "H", "I",
    "J", "K", "L", "M", "N", "O", "P", "Q", "R", "S", "T", "U", "V", "W",
    "X", "Y", "Z", "[", "\\", "]", "^", "_", "U+0060", "a", "b", "c", "d",
    "e", "f", "g", "h", "i", "j", "k", "l", "m", "n", "o", "p", "q", "r",
    "s", "t", "u", "v", "w", "x", "y", "z", "{", "|", "}", "~">>

HexDigits == <<"0", "1", "2", "3", "4", "5", "6", "7", "8", "9",
               "A", "B", "C", "D", "E", "F">>

HexDigitsLower == <<"0", "1", "2", "3", "4", "5", "6", "7", "8", "9",
                    "a", "b", "c", "d", "e", "f">>

IsHexDigit(c) == \E i \in 1..16 : c = HexDigits[i] \/ c = HexDigitsLower[i]

HexVal(c) == (CHOOSE i \in 1..16 : c = HexDigits[i] \/ c = HexDigitsLower[i]) - 1

\* String.fromCharCode(n)
CharOfCode(n) ==
  IF n = 9 THEN "\t"
  ELSE IF n = 10 THEN "\n"
  ELSE IF n = 12 THEN "\f"
  ELSE IF n = 13 THEN "\r"
  ELSE IF n >= 32 /\ n <= 126 THEN Ascii[n - 31]
  ELSE "U+" \o HexDigits[(n \div 4096) + 1] \o HexDigits[((n \div 256) % 16) + 1]
            \o HexDigits[((n \div 16) % 16) + 1] \o HexDigits[(n % 16) + 1]

\* The characters JSON.stringify writes as they are, when no surrogate.
PlainChars == {Ascii[i] : i \in 1..Len(Ascii)} \ {Quote, "\\"}

\* U+0000 .. U+001F
ControlChars == {CharOfCode(n) : n \in 0..31}

\* U+D800 .. U+DBFF and U+DC00 .. U+DFFF
HighSurrogates == {CharOfCode(n) : n \in 55296..56319}

LowSurrogates == {CharOfCode(n) : n \in 56320..57343}

\* c.charCodeAt(0) of a control character or a surrogate.
CodeOfSpecial(c) == CHOOSE n \in (0..31) \cup (55296..57343) : CharOfCode(n) = c

\* The \uxxxx escape of code unit n, in lower-case digits.
UnicodeEscape(n) ==
  <<"\\", "u", HexDigitsLower[(n \div 4096) + 1], HexDigitsLower[((n \div 256) % 16) + 1],
    HexDigitsLower[((n \div 16) % 16) + 1], HexDigitsLower[(n % 16) + 1]>>

(***************************************************************************)
(* JSON.stringify                                                          *)
(***************************************************************************)
\* What QuoteJSONString writes for the code unit at position i of str: the
\* quote and the backslash escaped, a control character by its short escape
\* or \u00xx, a surrogate that is not part of a pair by \udxxx.
QuoteUnit(str, i) ==
  LET c == str[i]
  IN  IF c \in PlainChars THEN <<c>>
      ELSE IF c = Quote THEN <<"\\", Quote>>
      ELSE IF c = "\\" THEN <<"\\", "\\">>
      ELSE IF c = "\t" THEN <<"\\", "t">>
      ELSE IF c = "\n" THEN <<"\\", "n">>
      ELSE IF c = "\f" THEN <<"\\", "f">>
      ELSE IF c = "\r" THEN <<"\\", "r">>
      ELSE IF c = "U+0008" THEN <<"\\", "b">>
      ELSE IF \/ c \in ControlChars
              \/ With(HighSurrogates,
                      LAMBDA high :
                        With(LowSurrogates,
                             LAMBDA low :
                               \/ c \in high /\ ~(i < Len(str) /\ str[i + 1] \in low)
                               \/ c \in low /\ ~(i > 1 /\ str[i - 1] \in high)))
      THEN UnicodeEscape(CodeOfSpecial(c))
      ELSE <<c>>

\* The code units lo..hi of str as QuoteJSONString writes them.
RECURSIVE QuoteUnits(_, _, _)
QuoteUnits(str, lo, hi) ==
  IF lo > hi THEN <<>>
  ELSE IF lo = hi THEN QuoteUnit(str, lo)
  ELSE QuoteUnits(str, lo, (lo + hi) \div 2) \o QuoteUnits(str, ((lo + hi) \div 2) + 1, hi)

\* JSON.stringify(string)
QuoteJSONString(str) == <<Quote>> \o QuoteUnits(str, 1, Len(str)) \o <<Quote>>

\* JSON.stringify of one value: a number that is not finite is written null.
JSONToken(v) ==
  IF v.type = "number" THEN
    (IF v.str = <<>> THEN IntToChars(v.num)
     ELSE IF v.str[Len(v.str)] = "y" THEN <<"n", "u", "l", "l">>
     ELSE v.str)
  ELSE IF v.type = "string" THEN QuoteJSONString(v.str)
  ELSE IF v.type = "boolean" THEN
    (IF v.num = 1 THEN <<"t", "r", "u", "e">> ELSE <<"f", "a", "l", "s", "e">>)
  ELSE IF v.type = "null" THEN <<"n", "u", "l", "l">>
  ELSE v.str

\* The values lo..hi of arr as JSON.stringify writes them, with commas
\* between them.
RECURSIVE JoinTokens(_, _, _)
JoinTokens(arr, lo, hi) ==
  IF lo > hi THEN <<>>
  ELSE IF lo = hi THEN JSONToken(arr[lo])
  ELSE JoinTokens(arr, lo, (lo + hi) \div 2) \o <<",">>
         \o JoinTokens(arr, ((lo + hi) \div 2) + 1, hi)

\* JSON.stringify(array)
JSONStringify(arr) == <<"[">> \o JoinTokens(arr, 1, Len(arr)) \o <<"]">>

(***************************************************************************)
(* Number to text (Number::toString) and back                              *)
(***************************************************************************)
\* String(x) of a finite Number above zero, from its shortest digits.
NumberToString(x) ==
  With(ShortestDigits(x),
       LAMBDA sd :
         LET k  == Len(sd.digits)
             n  == sd.point
         IN  With([i \in 1..k |-> Digits[sd.digits[i] + 1]],
                  LAMBDA ds :
                    IF k <= n /\ n <= 21 THEN ds \o [i \in 1..(n - k) |-> "0"]
                    ELSE IF 0 < n /\ n <= 21
                    THEN SubSeq(ds, 1, n) \o <<".">> \o SubSeq(ds, n + 1, k)
                    ELSE IF 0 - 6 < n /\ n <= 0
                    THEN <<"0", ".">> \o [i \in 1..(0 - n) |-> "0"] \o ds
                    ELSE (IF k = 1 THEN ds ELSE <<ds[1], ".">> \o SubSeq(ds, 2, k))
                           \o <<"e", IF n - 1 < 0 THEN "-" ELSE "+">>
                           \o NatToChars(IF n - 1 < 0 THEN 1 - n ELSE n - 1)))

\* A Number that is no integer below 10^9 in size: it is held by its text,
\* String(x), which tells two such Numbers apart exactly as === does.
NumText(cs) == [type |-> "number", num |-> 0, str |-> cs, key |-> NoKey]

\* The value is a Number that is an integer: one held by its num, or one
\* whose text has neither a fraction nor a negative exponent.
IsInteger(v) ==
  /\ v.type = "number"
  /\ \/ v.str = <<>>
     \/ \E i \in 1..(Len(v.str) - 1) : v.str[i] = "e" /\ v.str[i + 1] = "+"
     \/ \A i \in 1..Len(v.str) : v.str[i] \in DigitSet \cup {"-"}

\* The value of the Number x with the sign neg.  -0 is 0 wherever the
\* handlers can tell (a Set member, a property key, JSON.stringify).  An
\* integer below 10^9 is one whose String(x) is at most nine digits.
NumberValue(neg, x) ==
  IF x.kind = "infinity"
  THEN NumText((IF neg THEN <<"-">> ELSE <<>>) \o <<"I", "n", "f", "i", "n", "i", "t", "y">>)
  ELSE IF x.mant = <<>> THEN Num(0)
  ELSE With(NumberToString(x),
            LAMBDA text :
              IF Len(text) <= 9 /\ \A i \in 1..Len(text) : text[i] \in DigitSet
              THEN Num(IF neg THEN 0 - DigitsToNat(text) ELSE DigitsToNat(text))
              ELSE NumText((IF neg THEN <<"-">> ELSE <<>>) \o text))

(***************************************************************************)
(* JSON.parse                                                              *)
(***************************************************************************)
\* The first position from i on that holds no white space, that is no space,
\* TAB, LF or CR (Len(cs) + 1 when there is none).
SkipWS(cs, i) ==
  CHOOSE j \in i..(Len(cs) + 1) :
    /\ \A m \in i..(j - 1) : cs[m] \in {" ", "\t", "\n", "\r"}
    /\ j = Len(cs) + 1 \/ cs[j] \notin {" ", "\t", "\n", "\r"}

\* The last position of the longest run of characters of S that starts at i
\* (i - 1 when the run is empty).
RunEnd(cs, i, S) ==
  IF i > Len(cs) THEN i - 1
  ELSE CHOOSE j \in (i - 1)..Len(cs) :
         /\ \A m \in i..j : cs[m] \in S
         /\ j = Len(cs) \/ cs[j + 1] \notin S

\* The number of backslashes that end right before position j, counted
\* back to position lo at most.
BackslashRun(cs, lo, j) ==
  LET k == CHOOSE k \in (lo - 1)..(j - 1) :
             /\ k = lo - 1 \/ cs[k] # "\\"
             /\ \A m \in (k + 1)..(j - 1) : cs[m] = "\\"
  IN  j - 1 - k

\* The closing quote of the string token whose opening quote is at i: the
\* first quote that no backslash escapes; 0 when the string never ends.
StringEnd(cs, i) ==
  LET ends == {j \in (i + 1)..Len(cs) :
                 cs[j] = Quote /\ BackslashRun(cs, i + 1, j) % 2 = 0}
  IN  IF ends = {} THEN 0 ELSE CHOOSE j \in ends : \A m \in ends : j <= m

\* Position k of a string's content lo..hi starts an escape sequence.
EscapeStart(cs, lo, k) == cs[k] = "\\" /\ BackslashRun(cs, lo, k) % 2 = 0

\* The content lo..hi of a string token is well formed: no raw control
\* character, and after each backslash one of " \ / b f n r t, or u and four
\* hexadecimal digits.
StringContentOK(cs, lo, hi) ==
  \A k \in lo..hi :
    /\ cs[k] \notin ControlChars
    /\ EscapeStart(cs, lo, k) =>
         /\ k + 1 <= hi
         /\ cs[k + 1] \in {Quote, "\\", "/", "b", "f", "n", "r", "t", "u"}
         /\ cs[k + 1] = "u" =>
              /\ k + 5 <= hi
              /\ \A m \in (k + 2)..(k + 5) : IsHexDigit(cs[m])

\* Position k belongs to an escape sequence that started before it.
InEscape(cs, lo, k) ==
  \E q \in Max(lo, k - 5)..(k - 1) :
    /\ EscapeStart(cs, lo, q)
    /\ q + 1 = k \/ cs[q + 1] = "u"

\* The code unit that the escape sequence starting at k stands for.
Unescape(cs, k) ==
  LET c == cs[k + 1]
  IN  IF c = "b" THEN CharOfCode(8)
      ELSE IF c = "f" THEN "\f"
      ELSE IF c = "n" THEN "\n"
      ELSE IF c = "r" THEN "\r"
      ELSE IF c = "t" THEN "\t"
      ELSE IF c = "u" THEN
        CharOfCode(4096 * HexVal(cs[k + 2]) + 256 * HexVal(cs[k + 3])
                   + 16 * HexVal(cs[k + 4]) + HexVal(cs[k + 5]))
      ELSE c

\* The string that the well-formed content lo..hi spells.
StringContent(cs, lo, hi) ==
  LET starts == SelectSeq([p \in 1..(hi - lo + 1) |-> lo + p - 1],
                          LAMBDA k : ~InEscape(cs, lo, k))
  IN  [n \in 1..Len(starts) |->
         IF EscapeStart(cs, lo, starts[n]) THEN Unescape(cs, starts[n])
         ELSE cs[starts[n]]]

\* cs is one JSON string token.
IsJSONString(cs) ==
  /\ Len(cs) >= 2
  /\ cs[1] = Quote
  /\ StringEnd(cs, 1) = Len(cs)
  /\ StringContentOK(cs, 2, Len(cs) - 1)

NumberChars == DigitSet \cup {"-", "+", ".", "e", "E"}

\* up - down for two big naturals, kept within -331 .. 311.
PointPosition(up, down) ==
  IF BigCmp(up, down) >= 0
  THEN With(BigSub(up, down),
            LAMBDA d : IF BigCmp(d, <<311>>) > 0 THEN 311 ELSE BigLimb(d, 1))
  ELSE With(BigSub(down, up),
            LAMBDA d : IF BigCmp(d, <<331>>) > 0 THEN 0 - 331 ELSE 0 - BigLimb(d, 1))

\* The parts of a number token: -? int (. digits)? ((e|E) (+|-)? digits)?
\* [ok, neg, plain, digits, dexp]: the number is (-)digits * 10^dexp.  The
\* integer part ends at ie, the fraction at fe, the exponent's digits are
\* xs..xe and X is their value, of any size.  The number lies between
\* 10^(point - 1) and 10^point, point being the count n of digits from the
\* first that is not 0, plus the exponent, minus the length of the fraction.
\* Above 10^310 the Number is Infinity and below 10^-331 it is 0 whatever
\* the exponent: there, dexp is the nearest exponent with that Number.
NumberParts(t) ==
  LET neg == t # <<>> /\ t[1] = "-"
      b   == IF neg THEN 2 ELSE 1
  IN  With(RunEnd(t, b, DigitSet),
        LAMBDA ie :
          LET hasFrac == ie < Len(t) /\ t[ie + 1] = "."
          IN  With(IF hasFrac THEN RunEnd(t, ie + 2, DigitSet) ELSE ie,
                LAMBDA fe :
                  LET hasExp  == fe < Len(t) /\ t[fe + 1] \in {"e", "E"}
                      hasSign == hasExp /\ fe + 2 <= Len(t) /\ t[fe + 2] \in {"+", "-"}
                      xs      == IF hasSign THEN fe + 3 ELSE fe + 2
                  IN  With(IF hasExp THEN RunEnd(t, xs, DigitSet) ELSE fe,
                        LAMBDA xe :
                          With(IF hasExp THEN BigFromDigits(SubSeq(t, xs, xe)) ELSE <<>>,
                            LAMBDA X :
                              LET frac  == IF hasFrac THEN SubSeq(t, ie + 2, fe) ELSE <<>>
                                  n     == Len(StripLeadingZeros(SubSeq(t, b, ie) \o frac))
                                  minus == hasSign /\ t[fe + 2] = "-"
                              IN  [ok     |-> /\ ie >= b
                                              /\ ie = b \/ t[b] # "0"
                                              /\ hasFrac => fe >= ie + 2
                                              /\ hasExp => xe >= xs
                                              /\ xe = Len(t),
                                   neg    |-> neg,
                                   plain  |-> ~hasFrac /\ ~hasExp,
                                   digits |-> SubSeq(t, b, ie) \o frac,
                                   dexp   |-> PointPosition(
                                     BigAdd(BigFromNat(n), IF minus THEN <<>> ELSE X),
                                     BigAdd(BigFromNat(Len(frac)), IF minus THEN X ELSE <<>>))
                                                - n]))))

\* cs spells an array index as a property key does: digits without a
\* leading zero.
IsJSONNat(cs) ==
  /\ cs # <<>>
  /\ \A i \in 1..Len(cs) : cs[i] \in DigitSet
  /\ Len(cs) = 1 \/ cs[1] # "0"

\* The Number a number token spells.
JSONNumber(t) ==
  With(NumberParts(t),
       LAMBDA p :
         IF p.plain /\ Len(p.digits) <= 9
         THEN Num(IF p.neg THEN 0 - DigitsToNat(p.digits) ELSE DigitsToNat(p.digits))
         ELSE NumberValue(p.neg, DecimalToDouble(p.digits, p.dexp)))

Literal(name) ==
  IF name = "true" THEN <<"t", "r", "u", "e">>
  ELSE IF name = "false" THEN <<"f", "a", "l", "s", "e">>
  ELSE <<"n", "u", "l", "l">>

\* The text cs holds the literal at position i.
LiteralAt(cs, i, name) ==
  /\ i + Len(Literal(name)) - 1 <= Len(cs)
  /\ SubSeq(cs, i, i + Len(Literal(name)) - 1) = Literal(name)

Bool(b) == [type |-> "boolean", num |-> IF b THEN 1 ELSE 0, str |-> <<>>, key |-> NoKey]

\* An array or an object that JSON.parse has built: a fresh reference, told
\* from every other of the same parse by the position id where its text
\* starts; text is what JSON.stringify writes for it, key what String gives
\* for it.
Container(type, id, text, key) == [type |-> type, num |-> id, str |-> text, key |-> key]

\* key a < key b for two array indices.
IndexLess(a, b) ==
  \/ Len(a) < Len(b)
  \/ /\ Len(a) = Len(b)
     /\ \E i \in 1..Len(a) :
          /\ \A m \in 1..(i - 1) : a[m] = b[m]
          /\ DigitVal(a[i]) < DigitVal(b[i])

\* A property key is an array index: such keys come first, in ascending
\* order, when the properties of an object are listed.
IsArrayIndex(key) ==
  /\ IsJSONNat(key)
  /\ \/ Len(key) <= 9
     \/ Len(key) = 10 /\ IndexLess(key, <<"4", "2", "9", "4", "9", "6", "7", "2", "9", "5">>)

\* JSON.stringify of the object built from the members (key, text) in the
\* order of the source text, text being what JSON.stringify writes for the
\* member: a key written twice keeps its first place among the keys and its
\* last value.
ObjectText(members) ==
  LET n       == Len(members)
      last(p) == CHOOSE q \in p..n :
                   /\ members[q].key = members[p].key
                   /\ \A m \in (q + 1)..n : members[m].key # members[p].key
  IN  With(SelectSeq([p \in 1..n |-> p],
                     LAMBDA p : \A q \in 1..(p - 1) : members[q].key # members[p].key),
        LAMBDA first :
          With(SortSeq(SelectSeq(first, LAMBDA p : IsArrayIndex(members[p].key)),
                       LAMBDA p, q : IndexLess(members[p].key, members[q].key))
                 \o SelectSeq(first, LAMBDA p : ~IsArrayIndex(members[p].key)),
            LAMBDA order :
              LET body[i \in 0..Len(order)] ==
                    IF i = 0 THEN <<>>
                    ELSE body[i - 1] \o (IF i = 1 THEN <<>> ELSE <<",">>)
                           \o members[last(order[i])].text
              IN  <<"{">> \o body[Len(order)] \o <<"}">>))

\* String(v) throws a TypeError: v is an object with an own property
\* "toString" (what JSON.parse puts there is never a function, and valueOf
\* gives the object back), or an array that holds such a value.
ToPropertyKeyThrows(v) == v.key.throws

\* String(v): the property key that a value names.
ToPropertyKey(v) ==
  IF v.type = "number" THEN (IF v.str = <<>> THEN IntToChars(v.num) ELSE v.str)
  ELSE IF v.type = "string" THEN v.str
  ELSE IF v.type = "boolean" THEN Literal(IF v.num = 1 THEN "true" ELSE "false")
  ELSE IF v.type = "null" THEN Literal("null")
  ELSE v.key.text

\* String(array) for the array of the values elems: Array.prototype.join,
\* the keys of the elements joined by commas, null counting as the empty
\* text.
ArrayKey(elems) ==
  LET joined[i \in 0..Len(elems)] ==
        IF i = 0 THEN <<>>
        ELSE joined[i - 1] \o (IF i = 1 THEN <<>> ELSE <<",">>)
               \o (IF elems[i].type = "null" THEN <<>> ELSE ToPropertyKey(elems[i]))
  IN  IF \E i \in 1..Len(elems) : ToPropertyKeyThrows(elems[i])
      THEN [throws |-> TRUE, text |-> <<>>]
      ELSE [throws |-> FALSE, text |-> joined[Len(elems)]]

\* String(object) for the object built from the members (key, text):
\* Object.prototype.toString, unless the object has its own "toString".
ObjectKey(members) ==
  IF \E m \in 1..Len(members) : members[m].key = <<"t", "o", "S", "t", "r", "i", "n", "g">>
  THEN [throws |-> TRUE, text |-> <<>>]
  ELSE [throws |-> FALSE,
        text   |-> <<"[", "o", "b", "j", "e", "c", "t", " ", "O", "b", "j", "e", "c", "t", "]">>]

ParseFailure == [ok |-> FALSE, val |-> Null, elems |-> <<>>, next |-> 0]

\* The value whose text starts at position i of cs (white space skipped
\* already): [ok, val, next], next the position after the value.  Of an array
\* and of an object, ParseElements and ParseMembers read what follows the
\* opening bracket, from position i on, acc being what was read so far.
RECURSIVE ParseValue(_, _), ParseElements(_, _, _), ParseMembers(_, _, _)
ParseValue(cs, i) ==
  IF i > Len(cs) THEN ParseFailure
  ELSE IF cs[i] = "[" THEN
    With(ParseElements(cs, SkipWS(cs, i + 1), <<>>),
         LAMBDA r : IF r.ok
                    THEN [r EXCEPT !.val = Container("array", i, JSONStringify(r.elems),
                                                     ArrayKey(r.elems))]
                    ELSE ParseFailure)
  ELSE IF cs[i] = "{" THEN
    With(ParseMembers(cs, SkipWS(cs, i + 1), <<>>),
         LAMBDA r : IF r.ok
                    THEN [ok |-> TRUE,
                          val |-> Container("object", i, ObjectText(r.elems),
                                            ObjectKey(r.elems)),
                          elems |-> <<>>, next |-> r.next]
                    ELSE ParseFailure)
  ELSE IF cs[i] = Quote THEN
    With(StringEnd(cs, i),
         LAMBDA j : IF j # 0 /\ StringContentOK(cs, i + 1, j - 1)
                    THEN [ok |-> TRUE, val |-> Str(StringContent(cs, i + 1, j - 1)),
                          elems |-> <<>>, next |-> j + 1]
                    ELSE ParseFailure)
  ELSE IF cs[i] \in DigitSet \cup {"-"} THEN
    With(RunEnd(cs, i, NumberChars),
         LAMBDA j : IF NumberParts(SubSeq(cs, i, j)).ok
                    THEN [ok |-> TRUE, val |-> JSONNumber(SubSeq(cs, i, j)),
                          elems |-> <<>>, next |-> j + 1]
                    ELSE ParseFailure)
  ELSE IF LiteralAt(cs, i, "true")
  THEN [ok |-> TRUE, val |-> Bool(TRUE), elems |-> <<>>, next |-> i + 4]
  ELSE IF LiteralAt(cs, i, "false")
  THEN [ok |-> TRUE, val |-> Bool(FALSE), elems |-> <<>>, next |-> i + 5]
  ELSE IF LiteralAt(cs, i, "null")
  THEN [ok |-> TRUE, val |-> Null, elems |-> <<>>, next |-> i + 4]
  ELSE ParseFailure

ParseElements(cs, i, acc) ==
  IF i > Len(cs) THEN ParseFailure
  ELSE IF cs[i] = "]" /\ acc = <<>>
  THEN [ok |-> TRUE, val |-> Null, elems |-> <<>>, next |-> i + 1]
  ELSE LET v == ParseValue(cs, i)
           j == SkipWS(cs, v.next)
       IN  IF ~v.ok \/ j > Len(cs) THEN ParseFailure
           ELSE IF cs[j] = "," THEN ParseElements(cs, SkipWS(cs, j + 1), Append(acc, v.val))
           ELSE IF cs[j] = "]"
           THEN [ok |-> TRUE, val |-> Null, elems |-> Append(acc, v.val), next |-> j + 1]
           ELSE ParseFailure

ParseMembers(cs, i, acc) ==
  IF i > Len(cs) THEN ParseFailure
  ELSE IF cs[i] = "}" /\ acc = <<>>
  THEN [ok |-> TRUE, val |-> Null, elems |-> <<>>, next |-> i + 1]
  ELSE IF cs[i] # Quote THEN ParseFailure
  ELSE With(StringEnd(cs, i),
         LAMBDA e :
           LET keyOK == e # 0 /\ StringContentOK(cs, i + 1, e - 1)
               colon == SkipWS(cs, e + 1)
               v     == ParseValue(cs, SkipWS(cs, colon + 1))
               j     == SkipWS(cs, v.next)
           IN  With(With(StringContent(cs, i + 1, e - 1),
                      LAMBDA key :
                        Append(acc, [key  |-> key,
                                     text |-> QuoteJSONString(key) \o <<":">>
                                                \o JSONToken(v.val)])),
                 LAMBDA read :
                   IF ~keyOK \/ colon > Len(cs) THEN ParseFailure
                   ELSE IF cs[colon] # ":" \/ ~v.ok \/ j > Len(cs) THEN ParseFailure
                   ELSE IF cs[j] = "," THEN ParseMembers(cs, SkipWS(cs, j + 1), read)
                   ELSE IF cs[j] = "}"
                   THEN [ok |-> TRUE, val |-> Null, elems |-> read, next |-> j + 1]
                   ELSE ParseFailure))

\* cs is one JSON string, number or literal token.
IsJSONScalar(cs) ==
  \/ IsJSONString(cs)
  \/ cs # <<>> /\ (\A i \in 1..Len(cs) : cs[i] \in NumberChars) /\ NumberParts(cs).ok
  \/ cs \in {Literal("true"), Literal("false"), Literal("null")}

\* JSON.parse(text): [ok, isArray, elems]; ok = FALSE is the SyntaxError.
\* One value, with white space before and after it at most.
JSONParse(cs) ==
  With(ParseValue(cs, SkipWS(cs, 1)),
       LAMBDA v :
         IF v.ok /\ SkipWS(cs, v.next) = Len(cs) + 1
         THEN [ok |-> TRUE, isArray |-> v.val.type = "array", elems |-> v.elems]
         ELSE [ok |-> FALSE, isArray |-> FALSE, elems |-> <<>>])

(***************************************************************************)
(* The cart total (calculateCartTotal)                                     *)
(***************************************************************************)
\* price.replace(/[^0-9.]/g, ""): only digits and dots are kept.
StripNonNumeric(cs) == SelectSeq(cs, LAMBDA c : c \in DigitSet \/ c = ".")

\* parseFloat of a text made of digits and dots: the leading digits, then at
\* most one dot and the digits after it, read as the nearest Number; NaN
\* when there is no digit at all.
parseFloat(cs) ==
  LET ints == DigitPrefix(cs)
      rest == SubSeq(cs, Len(ints) + 1, Len(cs))
      frac == IF rest # <<>> /\ Head(rest) = "." THEN DigitPrefix(Tail(rest)) ELSE <<>>
  IN  IF ints = <<>> /\ frac = <<>> THEN NaN
      ELSE DecimalToDouble(ints \o frac, 0 - Len(frac))

isNaN(x) == x.kind = "nan"

\* One step of the reduce: sum + (isNaN(parsedFloat) ? 0 : parsedFloat).
PriceContribution(sum, price) ==
  With(parseFloat(StripNonNumeric(price)),
       LAMBDA parsedFloat :
         DoubleAdd(sum, IF isNaN(parsedFloat) THEN DoubleZero ELSE parsedFloat))

\* items.reduce(..., 0) over the prices of the items.
RECURSIVE SumPrices(_)
SumPrices(prices) ==
  IF prices = <<>> THEN DoubleZero
  ELSE PriceContribution(SumPrices(SubSeq(prices, 1, Len(prices) - 1)), prices[Len(prices)])

\* The digits ds in groups of three, separated by commas (en-US grouping):
\* counted from the right, every fourth character is a comma.
GroupThousands(ds) ==
  LET len == Len(ds) + ((Len(ds) - 1) \div 3)
  IN  IF ds = <<>> THEN <<>>
      ELSE [i \in 1..len |->
              LET j == len - i
              IN  IF j % 4 = 3 THEN "," ELSE ds[Len(ds) - (j - (j \div 4))]]

\* The digit string ds plus one: the digit before the trailing nines goes
\* up, the nines become zeros.
IncrementDigits(ds) ==
  LET p == CHOOSE n \in 0..Len(ds) :
             /\ n = 0 \/ ds[n] # 9
             /\ \A m \in (n + 1)..Len(ds) : ds[m] = 9
  IN  IF p = 0 THEN <<1>> \o [i \in 1..Len(ds) |-> 0]
      ELSE [i \in 1..Len(ds) |-> IF i < p THEN ds[i] ELSE IF i = p THEN ds[p] + 1 ELSE 0]

\* Intl.NumberFormat("en-US", currency USD).format(total): the decimal digits
\* of the Number, rounded to two fraction digits, half away from zero, the
\* integer digits grouped in thousands.
FormatUSD(x) ==
  IF x.kind = "nan" THEN <<"$", "N", "a", "N">>
  ELSE IF x.kind = "infinity" THEN <<"$", "U+221E">>
  ELSE IF x.mant = <<>> THEN <<"$", "0", ".", "0", "0">>
  ELSE With(ShortestDigits(x),
         LAMBDA sd :
           LET digit(i) == IF i >= 1 /\ i <= Len(sd.digits) THEN sd.digits[i] ELSE 0
               \* the digits down to the cents, before rounding
               cents    == [i \in 1..sd.point |-> digit(i)]
                             \o <<digit(sd.point + 1), digit(sd.point + 2)>>
           IN  With(IF digit(sd.point + 3) >= 5 THEN IncrementDigits(cents) ELSE cents,
                 LAMBDA all :
                   With([i \in 1..Max(3, Len(all)) |->
                           IF i <= 3 - Len(all) THEN "0"
                           ELSE Digits[all[i - Max(0, 3 - Len(all))] + 1]],
                     LAMBDA chars :
                       <<"$">> \o GroupThousands(SubSeq(chars, 1, Len(chars) - 2))
                         \o <<".">> \o SubSeq(chars, Len(chars) - 1, Len(chars)))))

\* calculateCartTotal without the isNaN test: one NaN makes the sum NaN, which
\* the formatter prints as $NaN.
calculateCartTotalUnchecked(prices) ==
  IF \E k \in 1..Len(prices) : isNaN(parseFloat(StripNonNumeric(prices[k])))
  THEN <<"$", "N", "a", "N">>
  ELSE FormatUSD(SumPrices(prices))

\* calculateCartTotal(items), over the price texts of the items.
calculateCartTotal(prices) == FormatUSD(SumPrices(prices))

\* calculateCartTotal of every list of at most MaxCart prices of ItemTable.
\* (The comparison makes TLC tabulate the function, so that each total is
\* computed once and looked up afterwards.)
CartTotals ==
  With([prices \in UNION {[1..n -> {ItemTable[i].price : i \in 1..Len(ItemTable)}] :
                            n \in 0..MaxCart}
          |-> calculateCartTotal(prices)],
       LAMBDA table : IF table = table THEN table ELSE <<>>)

\* calculateCartTotal(prices), looked up in CartTotals when it is there.
CartTotal(prices) ==
  With(CartTotals,
       LAMBDA table : IF prices \in DOMAIN table THEN table[prices]
                      ELSE calculateCartTotal(prices))

(***************************************************************************)
(* State                                                                   *)
(***************************************************************************)
VARIABLES
  phase,           \* "start" (script run), "loading" (fetch pending), "ready", "fatal"
  wired,           \* the listeners of attachGlobalEventBindings are attached
  fatalBlocks,     \* the error blocks that #gallery shows
  dataYaml,        \* what jsyaml.load makes of data.yaml
  storage,         \* localStorage["catalog-cart"]: [present, text]
  catalogItems,    \* state.catalogItems: its entries when it is an array
  catalogKind,  \* what state.catalogItems is: "array", "object" or "string"
  compareIndices,  \* state.compareIndices, in insertion order
  cartIndices,     \* state.cartIndices, in insertion order
  activeFilter,    \* state.activeFilter
  gallery,         \* the cards of #gallery, in display order
  compareBar,      \* #compare-bar, #compare-count, #btn-compare
  cartBadge,       \* #cart-badge
  compareModal,    \* #compare-modal and its table
  cartModal,       \* #cart-modal, its item list and total
  budget           \* events left in a bounded run; Unlimited in an unbounded one

vars ==
  <<phase, wired, fatalBlocks, dataYaml, storage, catalogItems, catalogKind,
    compareIndices, cartIndices,
    activeFilter, gallery, compareBar, cartBadge, compareModal, cartModal, budget>>

\* The session state and the document as one record, the argument and result
\* of every handler.  setItemCalls and removeItemCalls count the calls of
\* localStorage.setItem and localStorage.removeItem on the cart key made by the
\* handlers applied to the record, and threw tells that the last of them
\* ended with an exception it did not catch; they are no part of the state.
State ==
  [phase |-> phase, wired |-> wired, fatalBlocks |-> fatalBlocks, storage |-> storage,
   catalogItems |-> catalogItems, catalogKind |-> catalogKind,
   compareIndices |-> compareIndices, cartIndices |-> cartIndices,
   activeFilter |-> activeFilter, gallery |-> gallery, compareBar |-> compareBar,
   cartBadge |-> cartBadge, compareModal |-> compareModal, cartModal |-> cartModal,
   setItemCalls |-> 0, removeItemCalls |-> 0, threw |-> FALSE]

Commit(r) ==
  /\ phase' = r.phase
  /\ wired' = r.wired
  /\ fatalBlocks' = r.fatalBlocks
  /\ storage' = r.storage
  /\ catalogItems' = r.catalogItems
  /\ catalogKind' = r.catalogKind
  /\ compareIndices' = r.compareIndices
  /\ cartIndices' = r.cartIndices
  /\ activeFilter' = r.activeFilter
  /\ gallery' = r.gallery
  /\ compareBar' = r.compareBar
  /\ cartBadge' = r.cartBadge
  /\ compareModal' = r.compareModal
  /\ cartModal' = r.cartModal
  /\ dataYaml' = dataYaml
  /\ budget' = IF budget > 0 THEN budget - 1 ELSE budget

Unlimited == 0 - 1

\* An event may happen: the run is unbounded or has events left.
MayAct == budget # 0

NoRecord == [present |-> FALSE, text |-> <<>>]

Record(text) == [present |-> TRUE, text |-> text]

\* The state object as the script creates it and the document as the page
\* ships it: no listener, an empty gallery, the compare bar, the badge and
\* both modals hidden.
FreshState(stored) ==
  [phase |-> "start", wired |-> FALSE, fatalBlocks |-> 0, storage |-> stored,
   catalogItems |-> <<>>, catalogKind |-> "array",
   compareIndices |-> <<>>, cartIndices |-> <<>>, activeFilter |-> "all",
   gallery |-> <<>>,
   compareBar |-> [hidden |-> TRUE, count |-> <<>>, disabled |-> TRUE],
   cartBadge |-> [hidden |-> TRUE, text |-> <<>>],
   compareModal |-> [hidden |-> TRUE, columns |-> <<>>],
   cartModal |-> [hidden |-> TRUE, items |-> <<>>, total |-> <<>>],
   setItemCalls |-> 0, removeItemCalls |-> 0, threw |-> FALSE]

(***************************************************************************)
(* Rendering                                                               *)
(***************************************************************************)
\* Array.prototype.indexOf: the first position (from 0) holding the same
\* object, -1 when there is none.
indexOf(arr, x) ==
  IF \E i \in 1..Len(arr) : arr[i] = x
  THEN (CHOOSE i \in 1..Len(arr) : arr[i] = x /\ \A j \in 1..(i - 1) : arr[j] # x) - 1
  ELSE 0 - 1

\* buildCardElement without the markers of the selection sets (a card always
\* built unselected, unchecked and "Add to Cart").
buildCardElementUnmarked(s, item) ==
  [dataIndex |-> IntToChars(indexOf(s.catalogItems, item)),
   selected  |-> FALSE,
   checked   |-> FALSE,
   inCart    |-> FALSE,
   label     |-> "Add to Cart"]

\* One card: the data-index both controls carry, the card's "selected" class,
\* the checkbox's checked state, the cart button's "in-cart" class and label.
buildCardElement(s, item) ==
  LET originalIndex == indexOf(s.catalogItems, item)
      isSelected    == SetHas(s.compareIndices, originalIndex)
      isInCart      == SetHas(s.cartIndices, Num(originalIndex))
  IN  [dataIndex |-> IntToChars(originalIndex),
       selected  |-> isSelected,
       checked   |-> isSelected,
       inCart    |-> isInCart,
       label     |-> IF isInCart THEN "Remove from Cart" ELSE "Add to Cart"]

\* buildCardElement(item) throws a TypeError: item is null (item.url), or it
\* has no dimensions (item.dimensions.width).
buildCardElementThrows(item) == ItemTable[item].isNull \/ ~ItemTable[item].hasDimensions

\* The entries the active filter lets through, in catalog order.
visibleData(s) ==
  IF s.activeFilter = "all" THEN s.catalogItems
  ELSE SelectSeq(s.catalogItems, LAMBDA item : ItemTable[item].category = s.activeFilter)

\* Computing visibleData throws a TypeError: under a category filter the
\* catalog has no filter method (it is no array) or the callback reads the
\* category of a null entry.
visibleDataThrows(s) ==
  /\ s.activeFilter # "all"
  /\ \/ s.catalogKind # "array"
     \/ \E i \in 1..Len(s.catalogItems) : ItemTable[s.catalogItems[i]].isNull

\* renderGalleryGrid throws before it touches #gallery: visibleData cannot
\* be computed, it has no forEach (the catalog is no array), or a card cannot
\* be built.
renderGalleryGridThrows(s) ==
  \/ visibleDataThrows(s)
  \/ s.catalogKind # "array"
  \/ \E j \in 1..Len(visibleData(s)) : buildCardElementThrows(visibleData(s)[j])

\* The cards replace whatever #gallery held; when a TypeError is thrown on
\* the way, #gallery is left as it is.
renderGalleryGrid(s) ==
  LET vis == visibleData(s)
  IN  IF renderGalleryGridThrows(s) THEN [s EXCEPT !.threw = TRUE]
      ELSE [s EXCEPT !.gallery = [j \in 1..Len(vis) |-> buildCardElement(s, vis[j])],
                     !.fatalBlocks = 0]

(***************************************************************************)
(* Compare                                                                 *)
(***************************************************************************)
\* "n of 3 selected"
CountLabel(count) ==
  NatToChars(count) \o <<" ", "o", "f", " ">> \o NatToChars(MAX_COMPARE_ITEMS)
    \o <<" ", "s", "e", "l", "e", "c", "t", "e", "d">>

\* updateFloatingCompareBar showing the bar from two selected items on.
updateFloatingCompareBarFromTwo(s) ==
  LET count == Len(s.compareIndices)
  IN  IF count > 1
      THEN [s EXCEPT !.compareBar =
              [hidden |-> FALSE, count |-> CountLabel(count), disabled |-> count < 2]]
      ELSE [s EXCEPT !.compareBar.hidden = TRUE]

updateFloatingCompareBar(s) ==
  LET count == Len(s.compareIndices)
  IN  IF count > 0
      THEN [s EXCEPT !.compareBar =
              [hidden |-> FALSE, count |-> CountLabel(count), disabled |-> count < 2]]
      ELSE [s EXCEPT !.compareBar.hidden = TRUE]

\* toggleComparisonItem with the capacity test written size > MAX_COMPARE_ITEMS.
toggleComparisonItemOffByOne(s, j) ==
  LET itemIndex == parseInt(s.gallery[j].dataIndex).val
  IN  IF s.gallery[j].checked
      THEN IF Len(s.compareIndices) > MAX_COMPARE_ITEMS
           THEN [s EXCEPT !.gallery[j].checked = FALSE]
           ELSE updateFloatingCompareBar(
                  [s EXCEPT !.compareIndices = SetAdd(@, itemIndex),
                            !.gallery[j].selected = TRUE])
      ELSE updateFloatingCompareBar(
             [s EXCEPT !.compareIndices = SetDelete(@, itemIndex),
                       !.gallery[j].selected = FALSE])

\* toggleComparisonItem(checkbox of card j), run by the change event: the
\* checkbox already shows its new state.
toggleComparisonItem(s, j) ==
  LET itemIndex == parseInt(s.gallery[j].dataIndex).val
  IN  IF s.gallery[j].checked
      THEN IF Len(s.compareIndices) >= MAX_COMPARE_ITEMS
           THEN [s EXCEPT !.gallery[j].checked = FALSE]
           ELSE updateFloatingCompareBar(
                  [s EXCEPT !.compareIndices = SetAdd(@, itemIndex),
                            !.gallery[j].selected = TRUE])
      ELSE updateFloatingCompareBar(
             [s EXCEPT !.compareIndices = SetDelete(@, itemIndex),
                       !.gallery[j].selected = FALSE])

\* A click on the compare checkbox of card j: the browser flips the checkbox,
\* then dispatches change to handleGalleryInteractions.
handleGalleryInteractions(s, j) ==
  toggleComparisonItem([s EXCEPT !.gallery[j].checked = ~@], j)

\* clearComparisons without the pass over the checkboxes.
clearComparisonsKeepChecked(s) ==
  LET cleared == updateFloatingCompareBar([s EXCEPT !.compareIndices = <<>>])
  IN  [cleared EXCEPT !.gallery =
         [j \in 1..Len(s.gallery) |-> [s.gallery[j] EXCEPT !.selected = FALSE]]]

clearComparisons(s) ==
  LET cleared == updateFloatingCompareBar([s EXCEPT !.compareIndices = <<>>])
  IN  [cleared EXCEPT !.gallery =
         [j \in 1..Len(s.gallery) |->
            [s.gallery[j] EXCEPT !.selected = FALSE, !.checked = FALSE]]]

\* The names that every object answers to, from Object.prototype.
ObjectPrototypeNames ==
  {<<"c", "o", "n", "s", "t", "r", "u", "c", "t", "o", "r">>,
   <<"h", "a", "s", "O", "w", "n", "P", "r", "o", "p", "e", "r", "t", "y">>,
   <<"i", "s", "P", "r", "o", "t", "o", "t", "y", "p", "e", "O", "f">>,
   <<"p", "r", "o", "p", "e", "r", "t", "y", "I", "s", "E", "n", "u", "m", "e", "r", "a", "b", "l", "e">>,
   <<"t", "o", "L", "o", "c", "a", "l", "e", "S", "t", "r", "i", "n", "g">>,
   <<"t", "o", "S", "t", "r", "i", "n", "g">>,
   <<"v", "a", "l", "u", "e", "O", "f">>,
   <<"_", "_", "p", "r", "o", "t", "o", "_", "_">>,
   <<"_", "_", "d", "e", "f", "i", "n", "e", "G", "e", "t", "t", "e", "r", "_", "_">>,
   <<"_", "_", "d", "e", "f", "i", "n", "e", "S", "e", "t", "t", "e", "r", "_", "_">>,
   <<"_", "_", "l", "o", "o", "k", "u", "p", "G", "e", "t", "t", "e", "r", "_", "_">>,
   <<"_", "_", "l", "o", "o", "k", "u", "p", "S", "e", "t", "t", "e", "r", "_", "_">>}

\* The names that an array answers to besides its indices: length and the
\* methods of Array.prototype.
ArrayPrototypeNames ==
  {<<"l", "e", "n", "g", "t", "h">>,
   <<"a", "t">>,
   <<"c", "o", "n", "c", "a", "t">>,
   <<"c", "o", "p", "y", "W", "i", "t", "h", "i", "n">>,
   <<"e", "n", "t", "r", "i", "e", "s">>,
   <<"e", "v", "e", "r", "y">>,
   <<"f", "i", "l", "l">>,
   <<"f", "i", "l", "t", "e", "r">>,
   <<"f", "i", "n", "d">>,
   <<"f", "i", "n", "d", "I", "n", "d", "e", "x">>,
   <<"f", "i", "n", "d", "L", "a", "s", "t">>,
   <<"f", "i", "n", "d", "L", "a", "s", "t", "I", "n", "d", "e", "x">>,
   <<"f", "l", "a", "t">>,
   <<"f", "l", "a", "t", "M", "a", "p">>,
   <<"f", "o", "r", "E", "a", "c", "h">>,
   <<"i", "n", "c", "l", "u", "d", "e", "s">>,
   <<"i", "n", "d", "e", "x", "O", "f">>,
   <<"j", "o", "i", "n">>,
   <<"k", "e", "y", "s">>,
   <<"l", "a", "s", "t", "I", "n", "d", "e", "x", "O", "f">>,
   <<"m", "a", "p">>,
   <<"p", "o", "p">>,
   <<"p", "u", "s", "h">>,
   <<"r", "e", "d", "u", "c", "e">>,
   <<"r", "e", "d", "u", "c", "e", "R", "i", "g", "h", "t">>,
   <<"r", "e", "v", "e", "r", "s", "e">>,
   <<"s", "h", "i", "f", "t">>,
   <<"s", "l", "i", "c", "e">>,
   <<"s", "o", "m", "e">>,
   <<"s", "o", "r", "t">>,
   <<"s", "p", "l", "i", "c", "e">>,
   <<"t", "o", "R", "e", "v", "e", "r", "s", "e", "d">>,
   <<"t", "o", "S", "o", "r", "t", "e", "d">>,
   <<"t", "o", "S", "p", "l", "i", "c", "e", "d">>,
   <<"u", "n", "s", "h", "i", "f", "t">>,
   <<"v", "a", "l", "u", "e", "s">>,
   <<"w", "i", "t", "h">>}

\* The names that a string answers to besides its indices: length and the
\* methods of String.prototype.
StringPrototypeNames ==
  {<<"l", "e", "n", "g", "t", "h">>,
   <<"a", "n", "c", "h", "o", "r">>,
   <<"a", "t">>,
   <<"b", "i", "g">>,
   <<"b", "l", "i", "n", "k">>,
   <<"b", "o", "l", "d">>,
   <<"c", "h", "a", "r", "A", "t">>,
   <<"c", "h", "a", "r", "C", "o", "d", "e", "A", "t">>,
   <<"c", "o", "d", "e", "P", "o", "i", "n", "t", "A", "t">>,
   <<"c", "o", "n", "c", "a", "t">>,
   <<"e", "n", "d", "s", "W", "i", "t", "h">>,
   <<"f", "i", "x", "e", "d">>,
   <<"f", "o", "n", "t", "c", "o", "l", "o", "r">>,
   <<"f", "o", "n", "t", "s", "i", "z", "e">>,
   <<"i", "n", "c", "l", "u", "d", "e", "s">>,
   <<"i", "n", "d", "e", "x", "O", "f">>,
   <<"i", "s", "W", "e", "l", "l", "F", "o", "r", "m", "e", "d">>,
   <<"i", "t", "a", "l", "i", "c", "s">>,
   <<"l", "a", "s", "t", "I", "n", "d", "e", "x", "O", "f">>,
   <<"l", "i", "n", "k">>,
   <<"l", "o", "c", "a", "l", "e", "C", "o", "m", "p", "a", "r", "e">>,
   <<"m", "a", "t", "c", "h">>,
   <<"m", "a", "t", "c", "h", "A", "l", "l">>,
   <<"n", "o", "r", "m", "a", "l", "i", "z", "e">>,
   <<"p", "a", "d", "E", "n", "d">>,
   <<"p", "a", "d", "S", "t", "a", "r", "t">>,
   <<"r", "e", "p", "e", "a", "t">>,
   <<"r", "e", "p", "l", "a", "c", "e">>,
   <<"r", "e", "p", "l", "a", "c", "e", "A", "l", "l">>,
   <<"s", "e", "a", "r", "c", "h">>,
   <<"s", "l", "i", "c", "e">>,
   <<"s", "m", "a", "l", "l">>,
   <<"s", "p", "l", "i", "t">>,
   <<"s", "t", "a", "r", "t", "s", "W", "i", "t", "h">>,
   <<"s", "t", "r", "i", "k", "e">>,
   <<"s", "u", "b">>,
   <<"s", "u", "b", "s", "t", "r">>,
   <<"s", "u", "b", "s", "t", "r", "i", "n", "g">>,
   <<"s", "u", "p">>,
   <<"t", "o", "L", "o", "c", "a", "l", "e", "L", "o", "w", "e", "r", "C", "a", "s", "e">>,
   <<"t", "o", "L", "o", "c", "a", "l", "e", "U", "p", "p", "e", "r", "C", "a", "s", "e">>,
   <<"t", "o", "L", "o", "w", "e", "r", "C", "a", "s", "e">>,
   <<"t", "o", "U", "p", "p", "e", "r", "C", "a", "s", "e">>,
   <<"t", "o", "W", "e", "l", "l", "F", "o", "r", "m", "e", "d">>,
   <<"t", "r", "i", "m">>,
   <<"t", "r", "i", "m", "E", "n", "d">>,
   <<"t", "r", "i", "m", "L", "e", "f", "t">>,
   <<"t", "r", "i", "m", "R", "i", "g", "h", "t">>,
   <<"t", "r", "i", "m", "S", "t", "a", "r", "t">>}

\* state.catalogItems[idx] for a value of a selection set: [defined, item]
\* (when the conversion of idx to a property key does not throw).
\* The value names a property key.  A key that spells an index below the
\* length gives the entry at that position; length and the names of the
\* prototype give a value that is no entry (item 0: a number, a function, a
\* character of a string catalog); anything else is undefined.  The mapping
\* document is "title: Catalog", the scalar document "hello" (five
\* characters).
ItemAt(s, idx) ==
  With(ToPropertyKey(idx),
    LAMBDA key :
      LET index == IF IsJSONNat(key) /\ Len(key) <= 9 THEN DigitsToNat(key) ELSE 0 - 1
          \* the length of the array or of the string, none for the mapping
          size  == IF s.catalogKind = "array" THEN Len(s.catalogItems)
                   ELSE IF s.catalogKind = "string" THEN 5
                   ELSE 0
          names == IF s.catalogKind = "array" THEN ArrayPrototypeNames
                   ELSE IF s.catalogKind = "string" THEN StringPrototypeNames
                   ELSE {<<"t", "i", "t", "l", "e">>}
      IN  IF index >= 0 /\ index < size
          THEN [defined |-> TRUE,
                item    |-> IF s.catalogKind = "array" THEN s.catalogItems[index + 1] ELSE 0]
          ELSE [defined |-> key \in names \cup ObjectPrototypeNames, item |-> 0])

\* generateComparisonTableHTML(itemsToCompare) throws a TypeError: an item is
\* undefined or null (i.main_image_url) or has no dimensions
\* (i.dimensions.width).
generateComparisonTableHTMLThrows(itemsToCompare) ==
  \E k \in 1..Len(itemsToCompare) :
    \/ ~itemsToCompare[k].defined
    \/ itemsToCompare[k].item = 0
    \/ buildCardElementThrows(itemsToCompare[k].item)

\* openComparisonModal laying the columns out in catalog order.
openComparisonModalSorted(s) ==
  With([k \in 1..Len(s.compareIndices) |->
          ItemAt(s, Num(SortSeq(s.compareIndices, LAMBDA a, b : a < b)[k]))],
    LAMBDA selectedObjects :
      IF generateComparisonTableHTMLThrows(selectedObjects)
      THEN [s EXCEPT !.threw = TRUE]
      ELSE [s EXCEPT !.compareModal =
              [hidden |-> FALSE,
               columns |-> [k \in 1..Len(selectedObjects) |-> selectedObjects[k].item]]])

openComparisonModal(s) ==
  With([k \in 1..Len(s.compareIndices) |-> ItemAt(s, Num(s.compareIndices[k]))],
    LAMBDA selectedObjects :
      IF generateComparisonTableHTMLThrows(selectedObjects)
      THEN [s EXCEPT !.threw = TRUE]  \* nothing is written
      ELSE [s EXCEPT !.compareModal =
              [hidden |-> FALSE,
               columns |-> [k \in 1..Len(selectedObjects) |-> selectedObjects[k].item]]])

closeComparisonModal(s) == [s EXCEPT !.compareModal.hidden = TRUE]

(***************************************************************************)
(* Cart                                                                    *)
(***************************************************************************)
updateCartBadge(s) ==
  LET count == Len(s.cartIndices)
  IN  [s EXCEPT !.cartBadge = [hidden |-> ~(count > 0), text |-> NatToChars(count)]]

\* toggleCartItem persisting the set only when an index was added.
toggleCartItemAddOnly(s, j) ==
  LET itemIndex == Num(parseInt(s.gallery[j].dataIndex).val)
  IN  IF SetHas(s.cartIndices, itemIndex)
      THEN updateCartBadge(
             [s EXCEPT !.cartIndices = SetDelete(@, itemIndex),
                       !.gallery[j].label = "Add to Cart",
                       !.gallery[j].inCart = FALSE])
      ELSE updateCartBadge(
             [s EXCEPT !.cartIndices = SetAdd(@, itemIndex),
                       !.gallery[j].label = "Remove from Cart",
                       !.gallery[j].inCart = TRUE,
                       !.storage = Record(JSONStringify(SetAdd(s.cartIndices, itemIndex))),
                       !.setItemCalls = @ + 1])

\* toggleCartItem(cart button of card j)
toggleCartItem(s, j) ==
  LET itemIndex == Num(parseInt(s.gallery[j].dataIndex).val)
      toggled ==
        IF SetHas(s.cartIndices, itemIndex)
        THEN [s EXCEPT !.cartIndices = SetDelete(@, itemIndex),
                       !.gallery[j].label = "Add to Cart",
                       !.gallery[j].inCart = FALSE]
        ELSE [s EXCEPT !.cartIndices = SetAdd(@, itemIndex),
                       !.gallery[j].label = "Remove from Cart",
                       !.gallery[j].inCart = TRUE]
  IN  updateCartBadge(
        [toggled EXCEPT !.storage = Record(JSONStringify(toggled.cartIndices)),
                        !.setItemCalls = @ + 1])

closeCartModal(s) == [s EXCEPT !.cartModal.hidden = TRUE]

\* clearCart without the removal of the persisted record.
clearCartKeepRecord(s) ==
  LET cleared == updateCartBadge([s EXCEPT !.cartIndices = <<>>])
  IN  closeCartModal(
        [cleared EXCEPT !.gallery =
           [j \in 1..Len(s.gallery) |->
              [s.gallery[j] EXCEPT !.label = "Add to Cart", !.inCart = FALSE]]])

clearCart(s) ==
  LET cleared == updateCartBadge(
                   [s EXCEPT !.cartIndices = <<>>, !.storage = NoRecord,
                             !.removeItemCalls = @ + 1])
  IN  closeCartModal(
        [cleared EXCEPT !.gallery =
           [j \in 1..Len(s.gallery) |->
              [s.gallery[j] EXCEPT !.label = "Add to Cart", !.inCart = FALSE]]])

\* generateCartHTML(items) throws a TypeError: an item is undefined or null
\* (item.main_image_url).
generateCartHTMLThrows(items) ==
  \E k \in 1..Len(items) :
    ~items[k].defined \/ (items[k].item # 0 /\ ItemTable[items[k].item].isNull)

\* calculateCartTotal(items) throws a TypeError: an item is a value without a
\* price text (item.price.replace).
calculateCartTotalThrows(items) == \E k \in 1..Len(items) : items[k].item = 0

openCartModal(s) ==
  IF Len(s.cartIndices) = 0
  THEN [s EXCEPT !.cartModal = [hidden |-> FALSE, items |-> <<>>, total |-> <<"$", "0", ".", "0", "0">>]]
  ELSE With([k \in 1..Len(s.cartIndices) |-> ItemAt(s, s.cartIndices[k])],
         LAMBDA selectedObjects :
           LET listed == [k \in 1..Len(selectedObjects) |-> selectedObjects[k].item]
           IN  IF \/ \E k \in 1..Len(s.cartIndices) : ToPropertyKeyThrows(s.cartIndices[k])
                  \/ generateCartHTMLThrows(selectedObjects)
               THEN [s EXCEPT !.threw = TRUE]  \* nothing is written
               ELSE IF calculateCartTotalThrows(selectedObjects)
               THEN [s EXCEPT !.cartModal.items = listed, !.threw = TRUE]  \* the list only
               ELSE [s EXCEPT !.cartModal =
                       [hidden |-> FALSE,
                        items |-> listed,
                        total |-> CartTotal(
                          [k \in 1..Len(selectedObjects) |->
                             ItemTable[selectedObjects[k].item].price])]])

(***************************************************************************)
(* Load                                                                    *)
(***************************************************************************)
\* state.catalogItems = jsyaml.load(yamlString) || []
assignCatalog(s, value) ==
  [s EXCEPT !.catalogItems = value.items, !.catalogKind = CatalogKind(value)]

\* The fetch is rejected, its status is not ok, or jsyaml.load throws:
\* fetchCatalogData throws before it assigns anything.
fetchCatalogDataThrows(response) == response.status # "ok" \/ ~response.parses

\* fetchCatalogData without the badge update after the restore.
fetchCatalogDataNoBadge(s, response) ==
  IF fetchCatalogDataThrows(response) THEN [s EXCEPT !.threw = TRUE]
  ELSE With(JSONParse(s.storage.text),
         LAMBDA parsed :
           IF s.storage.present /\ s.storage.text # <<>> /\ parsed.ok /\ parsed.isArray
           THEN [assignCatalog(s, response.value) EXCEPT
                   !.cartIndices = SetFromArray(parsed.elems)]
           ELSE assignCatalog(s, response.value))

\* fetchCatalogData, given the answer to its fetch.
fetchCatalogData(s, response) ==
  IF fetchCatalogDataThrows(response) THEN [s EXCEPT !.threw = TRUE]
  ELSE With(JSONParse(s.storage.text),
         LAMBDA parsed :
           updateCartBadge(
             IF s.storage.present /\ s.storage.text # <<>> /\ parsed.ok /\ parsed.isArray
             THEN [assignCatalog(s, response.value) EXCEPT
                     !.cartIndices = SetFromArray(parsed.elems)]
             ELSE assignCatalog(s, response.value)))

attachGlobalEventBindings(s) == [s EXCEPT !.wired = TRUE]

\* initializeApplication binding the listeners before it awaits the fetch.
beginInitializationBinding(s) == attachGlobalEventBindings([s EXCEPT !.phase = "loading"])

\* initializeApplication from DOMContentLoaded up to its await: the theme is
\* set up and the fetch of data.yaml is issued.
beginInitialization(s) == [s EXCEPT !.phase = "loading"]

\* displayFatalError without the message block (the error is only logged).
displayFatalErrorSilent(s) == [s EXCEPT !.phase = "fatal", !.threw = FALSE]

\* The catch of initializeApplication: the message block becomes the content
\* of #gallery.
displayFatalError(s) ==
  [s EXCEPT !.phase = "fatal", !.gallery = <<>>, !.fatalBlocks = 1, !.threw = FALSE]

\* initializeApplication from the await on, given the answer to the fetch:
\* the catalog and the cart are read, the listeners are attached, the gallery
\* is rendered; an exception of any of the three steps ends the try block and
\* runs displayFatalError on what the steps before it have done.
initializeApplication(s, response) ==
  With(fetchCatalogData(s, response),
    LAMBDA fetched :
      IF fetched.threw THEN displayFatalError(fetched)
      ELSE With(renderGalleryGrid(attachGlobalEventBindings(fetched)),
             LAMBDA rendered :
               IF rendered.threw THEN displayFatalError(rendered)
               ELSE [rendered EXCEPT !.phase = "ready"]))

\* A user event on the document: the listener's handler runs when
\* attachGlobalEventBindings has attached it, and nothing happens otherwise.
\* An exception that the handler lets out is reported to the console and
\* leaves what the handler had done by then.
dispatchEvent(s, handled) == IF s.wired THEN handled ELSE s

\* handleCategoryFilterClick starting the selection over on a filter change.
handleCategoryFilterClickResetting(s, filter) ==
  renderGalleryGrid([s EXCEPT !.activeFilter = filter, !.compareIndices = <<>>])

handleCategoryFilterClick(s, filter) ==
  renderGalleryGrid([s EXCEPT !.activeFilter = filter])

(***************************************************************************)
(* Actions                                                                 *)
(***************************************************************************)
\* What localStorage may hold for the cart when the first session starts:
\* nothing, the empty text, a list of one position, a list of one string, a
\* text that is no list, a text that does not parse, and a list of one number
\* that is read as Infinity (which JSON.stringify writes back as null).
InitialRecords ==
  { NoRecord,
    Record(<<>>),
    Record(<<"[", "1", "]">>),
    Record(<<"[", Quote, "1", Quote, "]">>),
    Record(<<"{", Quote, "a", Quote, ":", "1", "}">>),
    Record(<<"[", "1", ",">>),
    Record(<<"[", "1", "e", "9", "9", "9", "]">>) }

\* The page has been opened over the record stored: the script has run and
\* initializeApplication waits for the fetch.
PageOpened(stored) == beginInitialization(FreshState(stored))

Fresh(stored) ==
  /\ storage = stored
  /\ phase = PageOpened(stored).phase
  /\ wired = PageOpened(stored).wired
  /\ fatalBlocks = PageOpened(stored).fatalBlocks
  /\ catalogItems = PageOpened(stored).catalogItems
  /\ catalogKind = PageOpened(stored).catalogKind
  /\ compareIndices = PageOpened(stored).compareIndices
  /\ cartIndices = PageOpened(stored).cartIndices
  /\ activeFilter = PageOpened(stored).activeFilter
  /\ gallery = PageOpened(stored).gallery
  /\ compareBar = PageOpened(stored).compareBar
  /\ cartBadge = PageOpened(stored).cartBadge
  /\ compareModal = PageOpened(stored).compareModal
  /\ cartModal = PageOpened(stored).cartModal

Init ==
  /\ dataYaml \in Documents
  /\ \E stored \in InitialRecords : Fresh(stored)
  /\ budget = Unlimited

InitViews ==
  /\ dataYaml \in Documents
  /\ \E stored \in InitialRecords : Fresh(stored)
  /\ budget = MaxEvents

\* The fetch is answered with the text of data.yaml.
Load == MayAct /\ phase = "loading" /\ Commit(initializeApplication(State, Answer(dataYaml)))

\* The fetch fails, or is answered with a text that is no YAML.
LoadFail ==
  /\ MayAct
  /\ phase = "loading"
  /\ \E response \in FailedResponses : Commit(initializeApplication(State, response))

\* The page is opened again: a new session over the same persisted record.
Restart == MayAct /\ phase # "loading" /\ Commit(PageOpened(storage))

\* The user's clicks.  The controls are in the page from the start, so a
\* click can come in any phase.
SetFilter ==
  /\ MayAct
  /\ \E filter \in FilterValues :
       Commit(dispatchEvent(State, handleCategoryFilterClick(State, filter)))

ToggleCompare ==
  /\ MayAct
  /\ \E j \in 1..Len(gallery) :
       Commit(dispatchEvent(State, handleGalleryInteractions(State, j)))

ClearCompare == MayAct /\ Commit(dispatchEvent(State, clearComparisons(State)))

ToggleCart ==
  /\ MayAct
  /\ \E j \in 1..Len(gallery) :
       /\ Len(cartIndices) < MaxCart \/ gallery[j].inCart
       /\ Commit(dispatchEvent(State, toggleCartItem(State, j)))

ClearCart == MayAct /\ Commit(dispatchEvent(State, clearCart(State)))

\* A disabled button dispatches no click.
OpenCompare ==
  MayAct /\ ~compareBar.disabled /\ Commit(dispatchEvent(State, openComparisonModal(State)))

CloseCompare == MayAct /\ Commit(dispatchEvent(State, closeComparisonModal(State)))

OpenCart == MayAct /\ Commit(dispatchEvent(State, openCartModal(State)))

CloseCart == MayAct /\ Commit(dispatchEvent(State, closeCartModal(State)))

\* The session: load, restart, filter, compare and cart.  The modals only
\* read the session state, and are followed in SpecViews.
Next ==
  \/ Load
  \/ LoadFail
  \/ Restart
  \/ SetFilter
  \/ ToggleCompare
  \/ ClearCompare
  \/ ToggleCart
  \/ ClearCart

Spec == Init /\ [][Next]_vars

\* Every handler, the modals included, in runs of at most MaxEvents events.
NextViews ==
  \/ Load
  \/ LoadFail
  \/ Restart
  \/ SetFilter
  \/ ToggleCompare
  \/ ClearCompare
  \/ ToggleCart
  \/ ClearCart
  \/ OpenCompare
  \/ CloseCompare
  \/ OpenCart
  \/ CloseCart

SpecViews == InitViews /\ [][NextViews]_vars

(***************************************************************************)
(* Properties                                                              *)
(***************************************************************************)
\* The identity a card carries: parseInt of its data-index.
CardIndex(card) == parseInt(card.dataIndex).val

\* The positions (from 0) of the entries of items that filter lets through,
\* in increasing order.
MatchingPositions(items, filter) ==
  SelectSeq([i \in 1..Len(items) |-> i - 1],
            LAMBDA p : filter = "all" \/ ItemTable[items[p + 1]].category = filter)

\* Position p of the catalog is shown under the filter.
VisibleUnder(items, filter, p) ==
  /\ p >= 0
  /\ p < Len(items)
  /\ (filter = "all" \/ ItemTable[items[p + 1]].category = filter)

\* C1: the compare set never holds more than MAX_COMPARE_ITEMS identities,
\* and in a state where it holds that many, a click on the compare checkbox
\* of a card whose identity is absent leaves the compare set as it was.
C1_CompareBounded ==
  /\ Len(compareIndices) <= MAX_COMPARE_ITEMS
  /\ phase = "ready" =>
       \A j \in 1..Len(gallery) :
         (/\ Len(compareIndices) >= MAX_COMPARE_ITEMS
          /\ ~SetHas(compareIndices, CardIndex(gallery[j])))
           => handleGalleryInteractions(State, j).compareIndices = compareIndices

\* The compare set is full and a card of an absent identity is on display.
C1_Witness ==
  /\ phase = "ready"
  /\ Len(compareIndices) = MAX_COMPARE_ITEMS
  /\ \E j \in 1..Len(gallery) : ~SetHas(compareIndices, CardIndex(gallery[j]))

\* C2 (as claimed): every visible card's selected marker and checkbox are set
\* exactly when its identity is in the compare set, and its in-cart marker
\* and "Remove from Cart" label exactly when its identity is in the cart set.
C2_ViewConsistent ==
  phase = "ready" =>
    \A j \in 1..Len(gallery) :
      LET card == gallery[j]
          inCompare == SetHas(compareIndices, CardIndex(card))
          inCart == SetHas(cartIndices, Num(CardIndex(card)))
      IN  /\ card.selected = inCompare
          /\ card.checked = inCompare
          /\ card.inCart = inCart
          /\ (card.label = "Remove from Cart") = inCart

\* The identities of the cards of a gallery, in display order.
CardIndices(cards) == [j \in 1..Len(cards) |-> CardIndex(cards[j])]

\* C3: from every state of a session, a click on any filter pill changes
\* neither selection set, and in the gallery it renders, every card is
\* selected and checked exactly when its identity is in the compare set and
\* marked in-cart exactly when it is in the cart set, and every catalog entry
\* that the new filter shows has the card that carries its identity.  (Every
\* state a filter click leads to is again a state of the session, so this
\* holds along any number of filter clicks.)
C3_SelectionSurvivesFilter ==
  phase = "ready" =>
    \A filter \in FilterValues :
      LET after == handleCategoryFilterClick(State, filter)
          ids   == CardIndices(after.gallery)
      IN  /\ after.compareIndices = compareIndices
          /\ after.cartIndices = cartIndices
          /\ \A j \in 1..Len(ids) :
               /\ after.gallery[j].selected = SetHas(compareIndices, ids[j])
               /\ after.gallery[j].checked = SetHas(compareIndices, ids[j])
               /\ after.gallery[j].inCart = SetHas(cartIndices, Num(ids[j]))
               /\ (after.gallery[j].label = "Remove from Cart")
                    = SetHas(cartIndices, Num(ids[j]))
          /\ \A i \in 0..(Len(catalogItems) - 1) :
               VisibleUnder(catalogItems, filter, i) =>
                 \E j \in 1..Len(ids) : catalogItems[ids[j] + 1] = catalogItems[i + 1]

\* An item is held in both selection sets while the active filter hides it.
C3_Witness ==
  /\ phase = "ready"
  /\ \E i \in 0..(Len(catalogItems) - 1) :
       /\ SetHas(compareIndices, i)
       /\ SetHas(cartIndices, Num(i))
       /\ ~VisibleUnder(catalogItems, activeFilter, i)

\* C4 (as claimed): the identities of the cards, in display order, are the
\* increasing positions of the catalog entries the filter lets through.
C4_IdentitiesArePositions ==
  phase = "ready" =>
    [j \in 1..Len(gallery) |-> CardIndex(gallery[j])]
      = MatchingPositions(catalogItems, activeFilter)

\* C5 (as claimed): every member of the compare set and of the cart set is a
\* position of the loaded catalog.
C5_IdentitiesInBounds ==
  phase = "ready" =>
    /\ \A k \in 1..Len(compareIndices) :
         compareIndices[k] >= 0 /\ compareIndices[k] < Len(catalogItems)
    /\ \A k \in 1..Len(cartIndices) :
         /\ IsInteger(cartIndices[k])
         /\ cartIndices[k].str = <<>>
         /\ cartIndices[k].num >= 0
         /\ cartIndices[k].num < Len(catalogItems)

\* The session a restart would begin over the record st, with the list items
\* in data.yaml.
NextSession(st, items) == initializeApplication(PageOpened(st), Answer(YamlList(items)))

\* C6 (as claimed): in every state of a session (so after any sequence of
\* cart toggles), a restart over the persisted record restores a cart set
\* with the members of the current one, an empty compare set and the filter
\* "all"; and a toggle of identity 1 on an empty cart persists the text [1],
\* from which the next load restores the cart set {1}.
C6_CartRoundTrip ==
  phase = "ready" =>
    /\ LET next == NextSession(storage, catalogItems)
       IN  /\ Members(next.cartIndices) = Members(cartIndices)
           /\ next.compareIndices = <<>>
           /\ next.activeFilter = "all"
    /\ cartIndices = <<>> =>
         \A j \in 1..Len(gallery) :
           CardIndex(gallery[j]) = 1 =>
             LET after == toggleCartItem(State, j)
             IN  /\ after.storage = Record(<<"[", "1", "]">>)
                 /\ NextSession(after.storage, catalogItems).cartIndices = <<Num(1)>>

\* The record lists exactly the members of the cart set, or is absent while
\* the cart set is empty.
InSync(st, cart) ==
  IF st.present
  THEN LET parsed == JSONParse(st.text)
       IN  /\ parsed.ok
           /\ parsed.isArray
           /\ Len(parsed.elems) = Len(cart)
           /\ Members(parsed.elems) = Members(cart)
  ELSE cart = <<>>

\* The handler leaves the record alone: no setItem, no removeItem, same text.
RecordUntouched(after) ==
  /\ after.storage = storage
  /\ after.setItemCalls = 0
  /\ after.removeItemCalls = 0

\* C7 (as claimed): from every state of a session: a cart toggle leaves the
\* record the serialization of the whole new cart set; clearing the cart
\* removes the record and empties the set; a filter click, a compare toggle, clearing
\* the compare set, and opening or closing either view leave the record
\* alone; and in every state the record lists exactly the cart set, or is
\* absent with the cart set empty, or is still the text holding no list that
\* the session found, with the cart set empty (no cart mutation has happened
\* yet).
C7_RecordFollowsCart ==
  phase = "ready" =>
    /\ \A j \in 1..Len(gallery) :
         LET after == toggleCartItem(State, j)
         IN  /\ after.storage = Record(JSONStringify(after.cartIndices))
             /\ after.setItemCalls = 1
             /\ after.removeItemCalls = 0
    /\ LET after == clearCart(State)
       IN  after.storage = NoRecord /\ after.cartIndices = <<>> /\ after.setItemCalls = 0
    /\ \A filter \in FilterValues : RecordUntouched(handleCategoryFilterClick(State, filter))
    /\ \A j \in 1..Len(gallery) : RecordUntouched(handleGalleryInteractions(State, j))
    /\ RecordUntouched(clearComparisons(State))
    /\ RecordUntouched(openComparisonModal(State))
    /\ RecordUntouched(closeComparisonModal(State))
    /\ RecordUntouched(openCartModal(State))
    /\ RecordUntouched(closeCartModal(State))
    /\ \/ InSync(storage, cartIndices)
       \/ /\ storage.present
          /\ ~JSONParse(storage.text).isArray
          /\ cartIndices = <<>>

\* The first numeric token of a price text: from its first digit, the digits,
\* grouping commas and dots that follow; the commas are dropped.
RECURSIVE FromFirstDigit(_)
FromFirstDigit(cs) ==
  IF cs = <<>> \/ Head(cs) \in DigitSet THEN cs ELSE FromFirstDigit(Tail(cs))

RECURSIVE NumericRun(_)
NumericRun(cs) ==
  IF cs = <<>> \/ Head(cs) \notin (DigitSet \cup {",", "."}) THEN <<>>
  ELSE <<Head(cs)>> \o NumericRun(Tail(cs))

FirstNumericToken(price) ==
  LET tok == parseFloat(SelectSeq(NumericRun(FromFirstDigit(price)), LAMBDA c : c # ","))
  IN  IF isNaN(tok) THEN DoubleZero ELSE tok

RECURSIVE SumFirstTokens(_)
SumFirstTokens(prices) ==
  IF prices = <<>> THEN DoubleZero
  ELSE DoubleAdd(SumFirstTokens(SubSeq(prices, 1, Len(prices) - 1)),
                 FirstNumericToken(prices[Len(prices)]))

\* C8 (as claimed): the total the cart view shows is the sum of the first
\* numeric token of the price of each item it lists, as currency.
C8_TotalOfFirstTokens ==
  (phase = "ready" /\ ~cartModal.hidden /\ cartModal.items # <<>>) =>
    cartModal.total = FormatUSD(SumFirstTokens(
      [k \in 1..Len(cartModal.items) |-> ItemTable[cartModal.items[k]].price]))

\* C9 (as claimed): two consecutive clicks on the compare checkbox of a
\* visible card leave the compare set with the members it had.
C9_CompareTogglePair ==
  phase = "ready" =>
    \A j \in 1..Len(gallery) :
      Members(handleGalleryInteractions(handleGalleryInteractions(State, j), j).compareIndices)
        = Members(compareIndices)

\* C10: two consecutive clicks on the cart button of a card leave the cart
\* set with the members it had, make two setItem calls (one each) and no
\* removeItem call, and leave the serialization of the restored set as the
\* record.
C10_CartTogglePair ==
  phase = "ready" =>
    \A j \in 1..Len(gallery) :
      LET once  == toggleCartItem(State, j)
          twice == toggleCartItem(once, j)
      IN  /\ Members(twice.cartIndices) = Members(cartIndices)
          /\ Len(twice.cartIndices) = Len(cartIndices)
          /\ once.setItemCalls = 1
          /\ twice.setItemCalls = 2
          /\ twice.removeItemCalls = 0
          /\ twice.storage = Record(JSONStringify(twice.cartIndices))

\* A card whose identity is in a cart of two or more is on display.
C10_Witness ==
  /\ phase = "ready"
  /\ Len(cartIndices) >= 2
  /\ \E j \in 1..Len(gallery) : SetHas(cartIndices, Num(CardIndex(gallery[j])))

\* C11: from every state of a session, a click on any filter pill, one whose
\* category no catalog entry has included, makes the pill's value the active
\* filter and changes nothing but the active filter and the gallery: the
\* compare set, the cart set, the persisted record (no setItem, no
\* removeItem), the catalog, the compare bar, the badge and both views are
\* as before; and with no entry of that category the gallery is left empty.
C11_FilterFrame ==
  phase = "ready" =>
    \A filter \in FilterValues :
      LET after == handleCategoryFilterClick(State, filter)
      IN  /\ after = [State EXCEPT !.activeFilter = filter, !.gallery = after.gallery]
          /\ MatchingPositions(catalogItems, filter) = <<>> => after.gallery = <<>>

\* A filter that matches no entry of a catalog with entries is active, the
\* gallery is empty, and both selection sets hold identities.
C11_Witness ==
  /\ phase = "ready"
  /\ catalogItems # <<>>
  /\ activeFilter # "all"
  /\ MatchingPositions(catalogItems, activeFilter) = <<>>
  /\ gallery = <<>>
  /\ compareIndices # <<>>
  /\ cartIndices # <<>>

\* C12 (as claimed): in every state of a session (so after every compare
\* toggle and every clearing of the compare set), the compare button is
\* disabled exactly when the compare set holds fewer than 2 identities.
C12_CompareButtonGate ==
  phase = "ready" => (compareBar.disabled <=> Len(compareIndices) < 2)

\* C13: from every state of a session, clearing the compare set leaves the
\* compare set empty, no card of the gallery selected or checked, and the
\* compare bar hidden, while the cart set, the persisted record (no setItem,
\* no removeItem), the active filter and the catalog are as before; and in
\* the gallery that any filter click renders afterwards no card is selected
\* or checked.
C13_ClearCompareFrame ==
  phase = "ready" =>
    LET after == clearComparisons(State)
    IN  /\ after.compareIndices = <<>>
        /\ Len(after.gallery) = Len(gallery)
        /\ \A j \in 1..Len(after.gallery) :
             ~after.gallery[j].selected /\ ~after.gallery[j].checked
        /\ after.compareBar.hidden
        /\ after.cartIndices = cartIndices
        /\ RecordUntouched(after)
        /\ after.activeFilter = activeFilter
        /\ after.catalogItems = catalogItems
        /\ \A filter \in FilterValues :
             LET shown == handleCategoryFilterClick(after, filter).gallery
             IN  \A j \in 1..Len(shown) : ~shown[j].selected /\ ~shown[j].checked

\* The compare set was cleared while it held two or more identities (the
\* hidden bar still reads the count it last showed), under a category
\* filter, with cards on display and a cart that is not empty.
C13_Witness ==
  /\ phase = "ready"
  /\ compareIndices = <<>>
  /\ compareBar.hidden
  /\ compareBar.count \in {CountLabel(n) : n \in 2..MAX_COMPARE_ITEMS}
  /\ activeFilter # "all"
  /\ gallery # <<>>
  /\ cartIndices # <<>>

\* C14: from every state of a session, the cart view open or closed,
\* clearing the cart leaves the cart set empty, the persisted record absent
\* (one removeItem, no setItem), every card of the gallery labelled
\* "Add to Cart" without the in-cart marker, and the cart view hidden, while
\* the compare set, the active filter and the catalog are as before; and a
\* session loaded over the record it leaves starts with an empty cart set.
C14_ClearCartFrame ==
  phase = "ready" =>
    LET after == clearCart(State)
    IN  /\ after.cartIndices = <<>>
        /\ after.storage = NoRecord
        /\ after.removeItemCalls = 1
        /\ after.setItemCalls = 0
        /\ Len(after.gallery) = Len(gallery)
        /\ \A j \in 1..Len(after.gallery) :
             after.gallery[j].label = "Add to Cart" /\ ~after.gallery[j].inCart
        /\ after.cartModal.hidden
        /\ after.compareIndices = compareIndices
        /\ after.activeFilter = activeFilter
        /\ after.catalogItems = catalogItems
        /\ NextSession(after.storage, catalogItems).cartIndices = <<>>

\* The cart was cleared after the cart view had listed its items (the hidden
\* view still holds them, and no record is left), with a compare selection.
C14_Witness ==
  /\ phase = "ready"
  /\ cartIndices = <<>>
  /\ ~storage.present
  /\ cartModal.hidden
  /\ cartModal.items # <<>>
  /\ gallery # <<>>
  /\ compareIndices # <<>>

\* C15 (as claimed): a session that loads a catalog of complete items over a
\* record that is absent, empty, not parsable, not a list, or a list with an
\* entry that is not an integer is ready, renders a card for every catalog
\* entry, and starts with an empty cart set.
C15_MalformedRecordIsAbsence ==
  (phase = "loading" /\ WellFormed(dataYaml)) =>
    LET parsed == JSONParse(storage.text)
        malformed ==
          \/ ~storage.present
          \/ ~parsed.ok
          \/ ~parsed.isArray
          \/ \E k \in 1..Len(parsed.elems) : ~IsInteger(parsed.elems[k])
        loaded == initializeApplication(State, Answer(dataYaml))
    IN  malformed =>
          /\ loaded.phase = "ready"
          /\ Len(loaded.gallery) = Len(dataYaml.items)
          /\ loaded.cartIndices = <<>>

\* The user's events on the state st: a click on a filter pill, on a card's
\* compare checkbox or cart button, and on the buttons that clear the compare
\* set and the cart.
EventOutcomes(st) ==
  {dispatchEvent(st, handleCategoryFilterClick(st, filter)) : filter \in FilterValues}
    \cup {dispatchEvent(st, handleGalleryInteractions(st, j)) : j \in 1..Len(st.gallery)}
    \cup {dispatchEvent(st, toggleCartItem(st, j)) : j \in 1..Len(st.gallery)}
    \cup {dispatchEvent(st, clearComparisons(st)), dispatchEvent(st, clearCart(st))}

\* C16: when the fetch of the catalog fails (it is rejected or answered with
\* a status that is not ok) or its content does not parse, the session
\* becomes fatal with exactly one error block and no card in the gallery, no
\* listener attached, and the compare set, the cart set, the catalog and the
\* persisted record as they were before the load (no setItem, no
\* removeItem), and no user event changes that state; and a fatal session
\* without listeners stays so: one error block, no card, both sets empty, and
\* no user event changes anything, so no card is rendered later.
C16_LoadFailureIsFatal ==
  /\ phase = "loading" =>
       \A response \in FailedResponses :
         LET failed == initializeApplication(State, response)
         IN  /\ failed.phase = "fatal"
             /\ failed.fatalBlocks = 1
             /\ failed.gallery = <<>>
             /\ ~failed.wired
             /\ failed.compareIndices = compareIndices
             /\ failed.cartIndices = cartIndices
             /\ failed.catalogItems = catalogItems
             /\ RecordUntouched(failed)
             /\ EventOutcomes(failed) = {failed}
  /\ (phase = "fatal" /\ ~wired) =>
       /\ fatalBlocks = 1
       /\ gallery = <<>>
       /\ compareIndices = <<>>
       /\ cartIndices = <<>>
       /\ catalogItems = <<>>
       /\ EventOutcomes(State) = {State}

\* A session is fatal, without listeners, over a record of two identities
\* that an earlier session left, with a catalog that has entries behind the
\* failed fetch.
C16_Witness ==
  /\ phase = "fatal"
  /\ ~wired
  /\ dataYaml.items # <<>>
  /\ storage.present
  /\ Len(JSONParse(storage.text).elems) = 2

\* The price text holds a digit.
HasNumber(price) == \E i \in 1..Len(price) : price[i] \in DigitSet

\* The prices of the items the cart view lists.
ListedPrices == [k \in 1..Len(cartModal.items) |-> ItemTable[cartModal.items[k]].price]

\* C17: whenever the cart view shows the items of a cart, it shows a total,
\* and that total is the one computed for the listed items whose price text
\* holds a number: an item whose price text holds none adds nothing.
C17_UnparsablePriceIsZero ==
  (phase = "ready" /\ ~cartModal.hidden /\ cartModal.items # <<>>) =>
    /\ cartModal.total # <<>>
    /\ cartModal.total = CartTotal(SelectSeq(ListedPrices, HasNumber))
    /\ (\A k \in 1..Len(ListedPrices) : ~HasNumber(ListedPrices[k]))
         => cartModal.total = <<"$", "0", ".", "0", "0">>

\* The cart view lists an item whose price holds no number next to one whose
\* price does.
C17_Witness ==
  /\ phase = "ready"
  /\ ~cartModal.hidden
  /\ \E k \in 1..Len(ListedPrices) : ~HasNumber(ListedPrices[k])
  /\ \E k \in 1..Len(ListedPrices) : HasNumber(ListedPrices[k])

\* C18 (as claimed): in every gallery, no two cards carry the same identity,
\* the card of the j-th entry shown carries that entry's own position even
\* when an equal entry comes earlier in the catalog, and a click on the
\* compare checkbox of one card changes the selected marker and the checkbox
\* of no other card.
C18_IdentitiesAreDistinct ==
  phase = "ready" =>
    /\ \A j, k \in 1..Len(gallery) :
         j # k => CardIndex(gallery[j]) # CardIndex(gallery[k])
    /\ \A j \in 1..Len(gallery) :
         /\ j <= Len(MatchingPositions(catalogItems, activeFilter))
         /\ CardIndex(gallery[j]) = MatchingPositions(catalogItems, activeFilter)[j]
    /\ \A j \in 1..Len(gallery) :
         LET after == handleGalleryInteractions(State, j)
         IN  \A k \in 1..Len(gallery) :
               k # j => /\ after.gallery[k].selected = gallery[k].selected
                        /\ after.gallery[k].checked = gallery[k].checked

\* The columns the comparison view shows when it is opened in st.
ColumnsOf(st) == openComparisonModal(st).compareModal.columns

\* seq without its k-th element.
Without(seq, k) == SubSeq(seq, 1, k - 1) \o SubSeq(seq, k + 1, Len(seq))

\* C19: in every state of a session, opening the comparison view shows it
\* with one column per member of the compare set, the k-th column holding
\* the catalog entry at the position that is the k-th member, whatever the
\* active filter, and any filter click leaves these columns as they are; a
\* compare click that inserts an identity puts its column last and leaves
\* the others in place, and one that removes an identity removes its column
\* alone; so the columns are in insertion order.  With a catalog that starts
\* A (sofa), B (chair), C (sofa), the filter "sofa" and 0 selected before 2,
\* the columns are A then C.
C19_ColumnsInInsertionOrder ==
  phase = "ready" =>
    LET view == openComparisonModal(State).compareModal
    IN  /\ ~view.hidden
        /\ Len(view.columns) = Len(compareIndices)
        /\ \A k \in 1..Len(compareIndices) :
             /\ compareIndices[k] >= 0
             /\ compareIndices[k] < Len(catalogItems)
             /\ view.columns[k] = catalogItems[compareIndices[k] + 1]
        /\ \A filter \in FilterValues :
             ColumnsOf(handleCategoryFilterClick(State, filter)) = view.columns
        /\ \A j \in 1..Len(gallery) :
             LET after == handleGalleryInteractions(State, j)
                 id    == CardIndex(gallery[j])
             IN  /\ (~SetHas(compareIndices, id) /\ SetHas(after.compareIndices, id))
                      => ColumnsOf(after) = view.columns \o <<catalogItems[id + 1]>>
                 /\ (SetHas(compareIndices, id) /\ ~SetHas(after.compareIndices, id))
                      => \E k \in 1..Len(compareIndices) :
                           /\ compareIndices[k] = id
                           /\ ColumnsOf(after) = Without(view.columns, k)
        /\ (/\ Len(catalogItems) >= 3
            /\ SubSeq(catalogItems, 1, 3) = <<1, 2, 3>>
            /\ activeFilter = "sofa"
            /\ compareIndices = <<0, 2>>)
             => view.columns = <<1, 3>>

\* The comparison view is open under a category filter on two columns in
\* insertion order, the later catalog entry first.
C19_Witness ==
  /\ phase = "ready"
  /\ ~compareModal.hidden
  /\ activeFilter # "all"
  /\ Len(compareIndices) = 2
  /\ compareIndices[1] > compareIndices[2]
  /\ compareModal.columns = ColumnsOf(State)
  /\ compareModal.columns[1] # compareModal.columns[2]

\* The cart sets whose record a load can find: at most MaxCart members in
\* any order, each a position of a catalog, the string "1" or null.
PersistedCarts ==
  LET members == {Num(i) : i \in 0..(MaxItems - 1)} \cup {Str(<<"1">>), Null}
  IN  {cart \in UNION {[1..n -> members] : n \in 0..MaxCart} :
         \A i, j \in 1..Len(cart) : i # j => cart[i] # cart[j]}

\* C20: while the fetch is pending no listener is attached and a click on a
\* filter pill, a compare checkbox, a cart button or either clear button
\* changes nothing; a listener is attached only in a session whose fetch has
\* been answered and that holds the whole catalog of data.yaml; and the load
\* leaves, for the first event handled, the listeners attached, the whole
\* catalog, the cart set restored from the record and, when the catalog is
\* one of complete items, a card for every entry.  The cart set restored is
\* the one whose serialization the record is, in the order written; it is
\* empty over no record, the empty text, a text that is no list and a text
\* that does not parse; and it holds Infinity over the list [1e999].
C20_NoEventBeforeLoad ==
  /\ phase = "loading" =>
       /\ ~wired
       /\ EventOutcomes(State) = {State}
       /\ LET loaded == initializeApplication(State, Answer(dataYaml))
          IN  /\ loaded.wired
              /\ loaded.catalogItems = dataYaml.items
              /\ loaded.catalogKind = CatalogKind(dataYaml)
              /\ \A cart \in PersistedCarts :
                   storage = Record(JSONStringify(cart)) => loaded.cartIndices = cart
              /\ storage \in {NoRecord, Record(<<>>), Record(<<"[", "1", ",">>),
                              Record(<<"{", Quote, "a", Quote, ":", "1", "}">>)}
                   => loaded.cartIndices = <<>>
              /\ storage = Record(<<"[", "1", "e", "9", "9", "9", "]">>)
                   => loaded.cartIndices = <<NumText(<<"I", "n", "f", "i", "n", "i", "t", "y">>)>>
              /\ WellFormed(dataYaml) =>
                   /\ loaded.phase = "ready"
                   /\ Len(loaded.gallery) = Len(dataYaml.items)
  /\ wired =>
       /\ phase \in {"ready", "fatal"}
       /\ catalogItems = dataYaml.items
       /\ catalogKind = CatalogKind(dataYaml)

\* A click has come while the first fetch of the page was pending: an event
\* of the run is spent and the session still waits, with a record to restore
\* and a catalog to load.
C20_Witness ==
  /\ phase = "loading"
  /\ budget = MaxEvents - 1
  /\ \E cart \in PersistedCarts : cart # <<>> /\ storage = Record(JSONStringify(cart))
  /\ dataYaml.items # <<>>

\* The compare bar of st is shown exactly when the compare set of st has a
\* member, and while shown it reads "n of 3 selected" for the size n.
BarShowsCount(st) ==
  /\ st.compareBar.hidden <=> st.compareIndices = <<>>
  /\ ~st.compareBar.hidden => st.compareBar.count = CountLabel(Len(st.compareIndices))

\* C21: in every state of a session, and in the state that any click on a
\* compare checkbox and the clearing of the compare set lead to, the compare
\* bar is shown exactly when the compare set has a member and then reads
\* "n of 3 selected" with n the size of the set: "2 of 3 selected" for a set
\* of two, and a click that would insert a fourth identity leaves the bar
\* reading "3 of 3 selected".
C21_BarShowsCount ==
  phase = "ready" =>
    /\ BarShowsCount(State)
    /\ BarShowsCount(clearComparisons(State))
    /\ Len(compareIndices) = 2 =>
         compareBar.count = <<"2", " ", "o", "f", " ", "3", " ", "s", "e", "l", "e", "c", "t", "e", "d">>
    /\ \A j \in 1..Len(gallery) :
         LET after == handleGalleryInteractions(State, j)
         IN  /\ BarShowsCount(after)
             /\ (/\ Len(compareIndices) = MAX_COMPARE_ITEMS
                 /\ ~SetHas(compareIndices, CardIndex(gallery[j])))
                  => /\ after.compareBar = compareBar
                     /\ ~after.compareBar.hidden
                     /\ after.compareBar.count = CountLabel(MAX_COMPARE_ITEMS)

\* The bar reads "3 of 3 selected" over a full compare set while a card of
\* an identity outside it is on display.
C21_Witness ==
  /\ phase = "ready"
  /\ Len(compareIndices) = MAX_COMPARE_ITEMS
  /\ ~compareBar.hidden
  /\ compareBar.count = CountLabel(MAX_COMPARE_ITEMS)
  /\ \E j \in 1..Len(gallery) :
       ~gallery[j].checked /\ ~SetHas(compareIndices, CardIndex(gallery[j]))

\* The badge of st reads the size of the cart set of st and is hidden exactly
\* when that set is empty.
BadgeShowsCount(st) ==
  /\ st.cartBadge.text = NatToChars(Len(st.cartIndices))
  /\ st.cartBadge.hidden <=> st.cartIndices = <<>>

\* C22: the session a load leaves, every state of a session after it, and
\* the state that any click on a cart button and the clearing of the cart
\* lead to, have the badge reading the number of members of the cart set
\* and hidden exactly when the cart set is empty.
C22_BadgeShowsCount ==
  /\ phase = "loading" => BadgeShowsCount(initializeApplication(State, Answer(dataYaml)))
  /\ phase = "ready" =>
       /\ BadgeShowsCount(State)
       /\ BadgeShowsCount(clearCart(State))
       /\ \A j \in 1..Len(gallery) : BadgeShowsCount(toggleCartItem(State, j))

\* The cart set that a load restores from the record st.
RestoredCart(st) ==
  LET parsed == JSONParse(st.text)
  IN  IF st.present /\ st.text # <<>> /\ parsed.ok /\ parsed.isArray
      THEN SetFromArray(parsed.elems)
      ELSE <<>>

\* A session holds the cart of two that its load restores from the record,
\* the badge reads 2, and a card of the cart is on display.
C22_Witness ==
  /\ phase = "ready"
  /\ storage.present
  /\ cartIndices = RestoredCart(storage)
  /\ Len(cartIndices) = 2
  /\ cartBadge = [hidden |-> FALSE, text |-> <<"2">>]
  /\ \E j \in 1..Len(gallery) : gallery[j].inCart

====
